---- MODULE Spec2Model ----
\* ARES browser front-end: the voice pipeline of voice.js (both variants), the
\* UI controllers of app.js and the modern UI controller, as one state machine.
\* A run is one page load of one variant; the variant is fixed by Init.
EXTENDS Integers, Sequences, FiniteSets, TLC

VARIABLES
    variant,          \* which script the page loaded
    isRecording,      \* ARES.isRecording
    mediaRecorder,    \* ARES.mediaRecorder: recorder id, 0 = null
    audioStream,      \* ARES.audioStream: stream id, 0 = null
    audioChunks,      \* ARES.audioChunks: sequence of chunks
    whisperAvailable, \* ARES.whisperAvailable
    recorders,        \* browser: state of every MediaRecorder created
    streams,          \* browser: state of every microphone stream opened
    gumPending,       \* browser: getUserMedia requests not yet settled
    net,              \* requests in flight (fetch promises not yet settled)
    coreState,        \* #coreStatus / #status text: the lifecycle phase shown
    responseText,     \* #responseText / #responseBox content
    responseClass,    \* colour class of the response element
    transcriptText,   \* #transcriptText content
    processingBox,    \* #processingBox has class "active"
    voiceButton,      \* #voiceToggleBtn has class "active"
    visualizer,       \* #voiceVisualizer has class "visualizer-active"
    commandInput,     \* #commandInput value
    synth,            \* window.speechSynthesis: queue of utterances
    cancelled,        \* cancelled utterances whose end/error event is not yet delivered
    notifications,    \* browser notifications created
    tones,            \* alarm tone sequences played
    resetTimers,      \* pending setTimeout(() => setStatus('IDLE'), 3000)
    activityLog,      \* #activityLog children, newest first
    budget,           \* work left in this run (bounds the run)
    speechSupported,  \* "speechSynthesis" in window
    busyButtons,      \* quick-action buttons shown active and disabled
    capture,          \* which of navigator.mediaDevices, MediaRecorder (voice.js) or
                      \* SpeechRecognition (controllers) the browser has; "unknown"
                      \* until startRecording or sendVoice first looks
    lastFail          \* the failure the last step handled, "none" otherwise

vars == <<variant, isRecording, mediaRecorder, audioStream, audioChunks,
          whisperAvailable, recorders, streams, gumPending, net, coreState,
          responseText, responseClass, transcriptText, processingBox, voiceButton,
          visualizer, commandInput, synth, cancelled, notifications, tones,
          resetTimers, activityLog, busyButtons, budget, speechSupported, capture,
          lastFail>>

\* What the page cannot change: the script loaded and the browser's features
Browser == <<variant, speechSupported, capture>>

-----------------------------------------------------------------------------
\* Bounds of the model.
MaxWork == 4         \* work of one run: an event that issues a request costs 2, one
                     \* that starts a speech recognition 3, another 1
MaxChunks == 1       \* timeslice chunks one recorder delivers while recording
MaxReminders == 2    \* reminders one poll returns
MaxLogged == 33      \* logActivity calls followed when the log is checked alone

-----------------------------------------------------------------------------
\* Text is a sequence of tokens: single characters ("x", "SP" for a blank, "NL"
\* for a line feed, "CHECK" for the check-mark emoji U+2705, "BULLET" for U+2022)
\* and fixed message fragments of the source, kept whole.
Whitespace == {"SP", "NL"}

\* The characters voice.js:364-365 deletes before speaking.
UnifiedGlyphs == {"CHECK", "BULLET"}

\* The characters voice.js:861-865 deletes before speaking.
WhisperGlyphs == {"CHECK", "BULLET"}

RECURSIVE TrimStart(_)
TrimStart(t) ==
    IF t = <<>> THEN <<>>
    ELSE IF Head(t) \in Whitespace THEN TrimStart(Tail(t)) ELSE t

RECURSIVE TrimEnd(_)
TrimEnd(t) ==
    IF t = <<>> THEN <<>>
    ELSE IF t[Len(t)] \in Whitespace THEN TrimEnd(SubSeq(t, 1, Len(t) - 1)) ELSE t

\* String.prototype.trim
Trim(t) == TrimEnd(TrimStart(t))

\* replace(/[set]/g, "")
RECURSIVE Strip(_, _)
Strip(t, set) ==
    IF t = <<>> THEN <<>>
    ELSE IF Head(t) \in set THEN Strip(Tail(t), set)
    ELSE <<Head(t)>> \o Strip(Tail(t), set)

\* replace(/\n+/g, " ")
RECURSIVE SquashNewlines(_)
SquashNewlines(t) ==
    IF t = <<>> THEN <<>>
    ELSE IF Head(t) = "NL"
         THEN IF Len(t) > 1 /\ t[2] = "NL" THEN SquashNewlines(Tail(t))
              ELSE <<"SP">> \o SquashNewlines(Tail(t))
    ELSE <<Head(t)>> \o SquashNewlines(Tail(t))

\* replace(/\n/g, '<br>')
RECURSIVE BreakLines(_)
BreakLines(t) ==
    IF t = <<>> THEN <<>>
    ELSE (IF Head(t) = "NL" THEN <<"<br>">> ELSE <<Head(t)>>) \o BreakLines(Tail(t))

-----------------------------------------------------------------------------
\* JavaScript values carried by JSON bodies.
Undefined == [k |-> "undefined", v |-> <<>>]
Str(t) == [k |-> "string", v |-> t]
Obj(t) == [k |-> "object", v |-> t]      \* v: the object's  key: value  pairs
False == [k |-> "boolean", v |-> <<"false">>]
True == [k |-> "boolean", v |-> <<"true">>]

\* ToBoolean
Truthy(x) ==
    CASE x.k = "undefined" -> FALSE
      [] x.k = "string" -> x.v # <<>>
      [] x.k = "boolean" -> x.v = <<"true">>
      [] OTHER -> TRUE

\* a || b
Or(a, b) == IF Truthy(a) THEN a ELSE b

\* ToString(x), as an assignment to textContent or a string concatenation does it
JsString(x) ==
    CASE x.k = "string" -> x.v
      [] x.k = "object" -> <<"[object Object]">>
      [] x.k = "undefined" -> <<"undefined">>
      [] OTHER -> x.v

\* JSON.stringify(x, null, 2) of a value, nested at indentation ind
Indent(n) == [i \in 1..n |-> "SP"]

RECURSIVE Members(_, _)
Members(pairs, ind) ==
    IF pairs = <<>> THEN <<>>
    ELSE Indent(ind) \o <<Head(pairs)>>
         \o (IF Len(pairs) > 1 THEN <<",">> ELSE <<>>) \o <<"NL">>
         \o Members(Tail(pairs), ind)

StringifyValue(x, ind) ==
    CASE x.k = "string" -> <<"\"">> \o x.v \o <<"\"">>
      [] x.k = "object" ->
            IF x.v = <<>> THEN <<"{}">>
            ELSE <<"{", "NL">> \o Members(x.v, ind + 2) \o Indent(ind) \o <<"}">>
      [] OTHER -> x.v

\* The fields of a response body in a fixed order.
BodyFields == <<"reply", "response", "speech", "success">>

RECURSIVE BodyMembers(_, _)
BodyMembers(d, fs) ==
    IF fs = <<>> THEN <<>>
    ELSE LET rest == BodyMembers(d, Tail(fs))
             f == Head(fs)
         IN IF d[f].k = "undefined" THEN rest
            ELSE <<"SP", "SP", f, ":", "SP">> \o StringifyValue(d[f], 2)
                 \o (IF rest = <<>> THEN <<>> ELSE <<",">>) \o <<"NL">> \o rest

\* JSON.stringify(d, null, 2) of a whole response body
Stringify(d) ==
    LET ms == BodyMembers(d, BodyFields)
    IN IF ms = <<>> THEN <<"{}">> ELSE <<"{", "NL">> \o ms \o <<"}">>

-----------------------------------------------------------------------------
\* The page state the handlers write, as one record, so that a handler is the
\* composition of the calls it makes.
Dom ==
    [core |-> coreState, response |-> responseText, rclass |-> responseClass,
     transcript |-> transcriptText, processing |-> processingBox,
     button |-> voiceButton, viz |-> visualizer, synth |-> synth,
     cancelled |-> cancelled, notifications |-> notifications,
     tones |-> tones, net |-> net, input |-> commandInput, timers |-> resetTimers,
     log |-> activityLog, busy |-> busyButtons, threw |-> FALSE]

\* The handler's result st is computed once and written to the page.
Commit(st) ==
    \E s \in {st} :
       /\ coreState' = s.core
       /\ responseText' = s.response
       /\ responseClass' = s.rclass
       /\ transcriptText' = s.transcript
       /\ processingBox' = s.processing
       /\ voiceButton' = s.button
       /\ visualizer' = s.viz
       /\ synth' = s.synth
       /\ cancelled' = s.cancelled
       /\ notifications' = s.notifications
       /\ tones' = s.tones
       /\ net' = s.net
       /\ commandInput' = s.input
       /\ resetTimers' = s.timers
       /\ activityLog' = s.log
       /\ busyButtons' = s.busy

Voice == {"unified", "whisper"}
Controllers == {"first", "second", "modern"}
QuickScripts == {"quickCommand", "quickDirect"}

\* voice.js setCoreState: the text of #coreStatus is map[state] || "IDLE"
CoreStatusText(state) ==
    CASE state = "idle" -> "IDLE"
      [] state = "listening" -> "LISTENING"
      [] state = "speaking" -> "SPEAKING"
      [] state = "processing" -> "THINKING"
      [] OTHER -> "IDLE"

setCoreState(st, state) == [st EXCEPT !.core = CoreStatusText(state)]

showTranscript(st, text) == [st EXCEPT !.transcript = text]

showProcessing(st, show) == [st EXCEPT !.processing = show]

\* voice.js showResponse: textContent = text, colour by type
showResponse(st, text, type) == [st EXCEPT !.response = text, !.rclass = type]

updateVoiceButton(st, rec) == [st EXCEPT !.button = rec]

setVisualizerActive(st, on) == [st EXCEPT !.viz = on]

\* speak without the cancel() call: the queue is left as it is.
synthKeep(st) == st

\* speechSynthesis.cancel(): the queue is emptied; each utterance removed gets
\* an end or error event later (voice.js attaches both handlers).
synthCancel(st) ==
    [st EXCEPT !.synth = <<>>,
               !.cancelled = IF variant \in Voice THEN @ + Len(st.synth) ELSE @]

\* speechSynthesis.speak(utterance)
synthSpeak(st, text) ==
    [st EXCEPT !.synth = Append(@, [text |-> text, started |-> FALSE])]

\* voice.js:363-367
CleanUnified(t) == Trim(SquashNewlines(Strip(t, UnifiedGlyphs)))

\* voice.js:861-866
CleanWhisper(t) == Trim(Strip(t, WhisperGlyphs))

\* speak without the setCoreState("idle") of its early returns.
speakNoIdle(st, x) ==
    IF ~Truthy(x) \/ ~speechSupported THEN st
    ELSE IF x.k # "string" THEN [st EXCEPT !.threw = TRUE]
    ELSE IF CleanUnified(x.v) = <<>> THEN st
    ELSE synthSpeak(setCoreState(synthCancel(st), "speaking"), CleanUnified(x.v))

\* voice.js:356-390 speak (unified variant); x is the JavaScript value passed.
\* A truthy non-string has no replace method: the call throws at line 363.
speakUnified(st, x) ==
    LET s0 == st
    IN IF ~Truthy(x) \/ ~speechSupported THEN setCoreState(s0, "idle")
       ELSE IF x.k # "string" THEN [s0 EXCEPT !.threw = TRUE]
       ELSE IF CleanUnified(x.v) = <<>> THEN setCoreState(s0, "idle")
       ELSE synthSpeak(setCoreState(synthCancel(s0), "speaking"), CleanUnified(x.v))

\* voice.js:851-892 speak (Whisper variant): cancel and the phase change come
\* before the cleaning, so a throwing call has already done both.
speakWhisper(st, x) ==
    LET s0 == st
        s1 == setCoreState(synthCancel(s0), "speaking")
    IN IF ~Truthy(x) \/ ~speechSupported THEN setCoreState(s0, "idle")
       ELSE IF x.k # "string" THEN [s1 EXCEPT !.threw = TRUE]
       ELSE IF CleanWhisper(x.v) = <<>> THEN setCoreState(s1, "idle")
       ELSE synthSpeak(s1, CleanWhisper(x.v))

speak(st, x) == IF variant = "unified" THEN speakUnified(st, x) ELSE speakWhisper(st, x)

\* fetch(url, ...): one more request in flight
fetch(st, kind, arg) == [st EXCEPT !.net = Append(@, [kind |-> kind, arg |-> arg])]

\* The request at position i of net settles.
Settle(st, i) ==
    [st EXCEPT !.net = SubSeq(st.net, 1, i - 1) \o SubSeq(st.net, i + 1, Len(st.net))]

\* An external event (user, timer, load-time answer) of the given cost happens.
Spend(cost) == budget >= cost /\ budget' = budget - cost

-----------------------------------------------------------------------------
\* voice.js: recording (unified 177-254, Whisper 643-747)

RecorderIds == 1..MaxWork

\* The capture features a browser may lack
CaptureSupport == {"full", "noMediaDevices", "noMediaRecorder"}

\* The id the next granted getUserMedia gives its stream and recorder.
NextId == Cardinality({i \in RecorderIds : streams[i] # "none"}) + 1

MicErrorMsg == <<"Cannot access microphone!", "NL", "NL", "NotAllowedError">>
ListeningMsg == <<"Listening...">>
WhisperMissingMsg == <<"Whisper not available!">>
WhisperListeningMsg == <<"Whisper is listening">>
MicTypeErrorMsg == <<"Cannot access microphone!", "NL", "NL", "TypeError">>
MicReferenceErrorMsg == <<"Cannot access microphone!", "NL", "NL", "ReferenceError">>

\* startRecording of a Whisper variant that does not look at whisperAvailable.
startRecordingUngated(found) ==
    IF found = "noMediaDevices"
    THEN /\ capture \in {"unknown", found} /\ capture' = found
         /\ Spend(2)
         /\ IF variant = "unified" THEN Commit(Dom)
            ELSE Commit(showResponse(Dom, MicTypeErrorMsg, "error"))
         /\ UNCHANGED <<isRecording, mediaRecorder, audioStream, recorders, streams,
                        gumPending>>
    ELSE /\ capture \in {"unknown", found} /\ capture' = found
         /\ Spend(2)
         /\ gumPending' = gumPending + 1
         /\ Commit(Dom)
         /\ UNCHANGED <<isRecording, mediaRecorder, audioStream, recorders, streams>>

\* voice.js:188-198 / 656-675: startRecording up to the getUserMedia request, in
\* a browser found to have the features named
startRecording(found) ==
    IF variant = "whisper" /\ ~whisperAvailable
    THEN /\ Commit(showResponse(Dom, WhisperMissingMsg, "error"))
         /\ UNCHANGED <<isRecording, mediaRecorder, audioStream, recorders, streams,
                        gumPending, budget, capture>>
    ELSE IF found = "noMediaDevices"
    THEN \* 191: the TypeError leaves the unified handler; 718: the catch reports it
         /\ capture \in {"unknown", found} /\ capture' = found
         /\ Spend(2)
         /\ IF variant = "unified" THEN Commit(Dom)
            ELSE Commit(showResponse(Dom, MicTypeErrorMsg, "error"))
         /\ UNCHANGED <<isRecording, mediaRecorder, audioStream, recorders, streams,
                        gumPending>>
    ELSE /\ capture \in {"unknown", found} /\ capture' = found
         /\ Spend(2)
         /\ gumPending' = gumPending + 1
         /\ Commit(Dom)
         /\ UNCHANGED <<isRecording, mediaRecorder, audioStream, recorders, streams>>

\* voice.js:240-254 / 731-747
stopRecording ==
    /\ isRecording' = FALSE
    /\ Commit(updateVoiceButton(Dom, FALSE))
    /\ recorders' =
          IF mediaRecorder # 0 /\ recorders[mediaRecorder].state = "recording"
          THEN [recorders EXCEPT ![mediaRecorder].state = "flushing"]
          ELSE recorders
    /\ streams' =
          IF audioStream # 0 THEN [streams EXCEPT ![audioStream] = "ended"] ELSE streams
    /\ audioStream' = 0
    /\ UNCHANGED <<mediaRecorder, gumPending, budget>>

\* voice.js:177-183 / 643-651
toggleVoice ==
    /\ variant \in Voice
    /\ IF isRecording THEN stopRecording /\ UNCHANGED capture /\ lastFail' = "none"
       ELSE \E found \in CaptureSupport :
               /\ startRecording(found)
               /\ lastFail' = IF /\ found = "noMediaDevices"
                                 /\ ~(variant = "whisper" /\ ~whisperAvailable)
                              THEN "unsupported" ELSE "none"
    /\ UNCHANGED <<variant, audioChunks, whisperAvailable, speechSupported>>

\* voice.js:199-230 / 677-716: getUserMedia resolved and the recorder started
GumGranted ==
    /\ variant \in Voice
    /\ gumPending > 0
    /\ capture = "full"
    /\ NextId \in RecorderIds
    /\ gumPending' = gumPending - 1
    /\ audioStream' = NextId
    /\ streams' = [streams EXCEPT ![NextId] = "live"]
    /\ mediaRecorder' = NextId
    /\ recorders' = [recorders EXCEPT ![NextId] = [state |-> "recording", made |-> 0]]
    /\ audioChunks' = <<>>
    /\ isRecording' = TRUE
    /\ LET s1 == showTranscript(setVisualizerActive(setCoreState(
                     updateVoiceButton(Dom, TRUE), "listening"), TRUE), ListeningMsg)
       IN IF variant = "unified" THEN Commit(s1)
          ELSE Commit(speak(showResponse(s1, WhisperListeningMsg, "info"),
                            Str(<<"Listening">>)))
    /\ lastFail' = "none"
    /\ UNCHANGED <<variant, whisperAvailable, budget, speechSupported, capture>>

\* voice.js:199-203, 231-234 / 668-681, 718-725: getUserMedia resolved, but
\* MediaRecorder is not defined: the stream is kept and the ReferenceError reported
GumGrantedNoRecorder ==
    /\ variant \in Voice
    /\ gumPending > 0
    /\ capture = "noMediaRecorder"
    /\ NextId \in RecorderIds
    /\ gumPending' = gumPending - 1
    /\ audioStream' = NextId
    /\ streams' = [streams EXCEPT ![NextId] = "live"]
    /\ Commit(showResponse(Dom, MicReferenceErrorMsg, "error"))
    /\ lastFail' = "unsupported"
    /\ UNCHANGED <<Browser, isRecording, mediaRecorder, audioChunks, whisperAvailable,
                   recorders, budget>>

\* voice.js:231-234 / 718-725: getUserMedia rejected
GumDenied ==
    /\ variant \in Voice
    /\ gumPending > 0
    /\ gumPending' = gumPending - 1
    /\ Commit(showResponse(Dom, MicErrorMsg, "error"))
    /\ lastFail' = "mic"
    /\ UNCHANGED <<variant, isRecording, mediaRecorder, audioStream, audioChunks,
                   whisperAvailable, recorders, streams, budget, speechSupported, capture>>

\* voice.js:213-215 / 691-695: a timeslice chunk of a recorder still recording
ondataavailable(r) ==
    /\ variant \in Voice
    /\ recorders[r].state = "recording"
    /\ recorders[r].made < MaxChunks
    /\ recorders' = [recorders EXCEPT ![r].made = @ + 1]
    /\ audioChunks' = Append(audioChunks, [rec |-> r, n |-> recorders[r].made + 1])
    /\ Commit(Dom)
    /\ lastFail' = "none"
    /\ UNCHANGED <<variant, isRecording, mediaRecorder, audioStream, whisperAvailable,
                   streams, gumPending, budget, speechSupported, capture>>

\* The last dataavailable event of a stopped recorder; hasData: e.data.size > 0
onfinaldata(r, hasData) ==
    /\ variant \in Voice
    /\ recorders[r].state = "flushing"
    /\ recorders' = [recorders EXCEPT ![r].state = "stopping",
                                      ![r].made = IF hasData THEN @ + 1 ELSE @]
    /\ audioChunks' =
          IF hasData THEN Append(audioChunks, [rec |-> r, n |-> recorders[r].made + 1])
          ELSE audioChunks
    /\ Commit(Dom)
    /\ lastFail' = "none"
    /\ UNCHANGED <<variant, isRecording, mediaRecorder, audioStream, whisperAvailable,
                   streams, gumPending, budget, speechSupported, capture>>

NoAudioMsg == <<"No audio recorded.">>
TranscribingMsg == <<"Transcribing...">>

\* processRecording without the check of lines 260-265: it uploads what there is.
processRecordingUnchecked(st) ==
    fetch(showProcessing(showTranscript(setVisualizerActive(
            setCoreState(st, "processing"), FALSE), TranscribingMsg), TRUE),
          "transcribe", audioChunks)

\* voice.js:259-279 / 752-780: processRecording up to the request
processRecording(st) ==
    IF audioChunks = <<>>
    THEN setVisualizerActive(
            setCoreState(showTranscript(st, IF variant = "unified" THEN NoAudioMsg
                                            ELSE NoAudioMsg \o <<" Try again!">>),
                         "idle"), FALSE)
    ELSE fetch(showProcessing(showTranscript(setVisualizerActive(
                 setCoreState(st, "processing"), FALSE), TranscribingMsg), TRUE),
               "transcribe", audioChunks)

\* voice.js:217-220 / 697-700: the stop event of a stopped recorder
onstop(r) ==
    /\ variant \in Voice
    /\ recorders[r].state = "stopping"
    /\ recorders' = [recorders EXCEPT ![r].state = "inactive"]
    /\ Commit(processRecording(Dom))
    /\ lastFail' = "none"
    /\ UNCHANGED <<variant, isRecording, mediaRecorder, audioStream, audioChunks,
                   whisperAvailable, streams, gumPending, budget, speechSupported, capture>>

-----------------------------------------------------------------------------
\* voice.js: transcription result and command dispatch

NoSpeechMsg == <<"No speech detected.">>
NoSpeechTips == <<"No speech detected.", "NL", "NL", "Tips:">>
TranscriptionFailedMsg == <<"Transcription failed: ">>
TranscribeErrorMsg == <<"Error transcribing. Is Whisper installed?">>
WhisperConnectMsg == <<"Error connecting to Whisper.">>
DoneMsg == <<"Done.">>
ReceivedMsg == <<"I received your command.">>
SorryMsg == <<"Sorry, something went wrong.">>
SorryWhisperMsg == <<"Sorry, I had trouble processing that.">>
AIConnectMsg == <<"Error connecting to AI.">>

\* Bodies /voice/transcribe answers with.
TranscribeBodies ==
    [error : {Undefined, Str(<<"e">>)},
     text : {Undefined, Str(<<>>), Str(<<"SP">>), Str(<<"x">>)}]

\* Bodies /ai-command answers with.
Body(reply, response, speech, success) ==
    [reply |-> reply, response |-> response, speech |-> speech, success |-> success]

CommandBodies ==
    {Body(Str(<<"x">>), Undefined, Undefined, True),
     Body(Str(<<"x">>), Undefined, Str(<<"z">>), Undefined),
     Body(Str(<<"x">>), Str(<<"y">>), Undefined, False),
     Body(Str(<<>>), Str(<<"y">>), Undefined, Undefined),
     Body(Undefined, Str(<<"y">>), Str(<<"z">>), Undefined),
     Body(Undefined, Obj(<<"ok: 1">>), Undefined, Undefined),
     Body(Undefined, Obj(<<"ok: 1">>), Str(<<"z">>), True),
     Body(Undefined, Undefined, Str(<<"z">>), Undefined),
     Body(Undefined, Undefined, Undefined, Undefined)}

\* voice.js:312-330: sendCommand (unified) up to the request. override is the
\* textOverride argument, <<>> when sendCommand is called without one.
sendCommandUnified(st, override) ==
    LET text == IF override # <<>> THEN override ELSE Trim(st.input)
        s1 == IF override = <<>> THEN [st EXCEPT !.input = <<>>] ELSE st
    IN IF text = <<>> THEN st
       ELSE fetch(showTranscript(showProcessing(setCoreState(s1, "processing"), TRUE),
                                 <<"Processing: ">> \o text),
                  "command", text)

\* voice.js:819-829: sendToAI up to the request
sendToAI(st, command) ==
    fetch(showProcessing(setCoreState(st, "processing"), TRUE), "command", command)

\* A catch of sendCommand that sends the command once more.
commandCatchRetry(st, message) ==
    fetch(showResponse(showProcessing(st, FALSE), <<"Error: ">> \o message, "error"),
          "command", message)

\* voice.js:344-350: the catch of sendCommand (unified)
commandCatchUnified(st, message) ==
    setCoreState(speak(showResponse(showProcessing(st, FALSE),
                                    <<"Error: ">> \o message, "error"),
                       Str(SorryMsg)), "idle")

\* voice.js:839-845: the catch of sendToAI
commandCatchWhisper(st) ==
    setCoreState(speak(showResponse(showProcessing(st, FALSE), AIConnectMsg, "error"),
                       Str(SorryWhisperMsg)), "idle")

\* voice.js:332-343: the response handler of sendCommand (unified), with the
\* catch that follows it when speak throws
commandThenUnified(st, data) ==
    LET response == Or(Or(Or(data.reply, data.response), data.speech), Str(DoneMsg))
        responseClass0 == IF data.success = False THEN "error" ELSE "success"
        s1 == showResponse(showProcessing(st, FALSE), JsString(response), responseClass0)
        s2 == speak(s1, Or(data.speech, response))
    IN IF s2.threw
       THEN commandCatchUnified([s2 EXCEPT !.threw = FALSE],
                                <<"text.replace is not a function">>)
       ELSE s2

\* Whether the speak call of the response handler throws (voice.js:342 / 837).
commandThrows(data) ==
    LET response == Or(Or(data.reply, data.response), data.speech)
        said == IF variant = "unified" THEN Or(data.speech, response) ELSE response
    IN Truthy(said) /\ said.k # "string" /\ speechSupported

\* voice.js:831-838: the response handler of sendToAI, with the catch
commandThenWhisper(st, data) ==
    LET response == Or(Or(Or(data.reply, data.response), data.speech), Str(ReceivedMsg))
        s1 == showResponse(showProcessing(st, FALSE), JsString(response), "success")
        s2 == speak(s1, response)
    IN IF s2.threw THEN commandCatchWhisper([s2 EXCEPT !.threw = FALSE]) ELSE s2

\* The transcription handler without the setCoreState("idle") of its last branch.
transcribeThenUnifiedNoIdle(st, data) ==
    LET s1 == showProcessing(st, FALSE)
        text == Trim(JsString(Or(data.text, Str(<<>>))))
    IN IF Truthy(data.error)
       THEN setCoreState(showResponse(s1, TranscriptionFailedMsg \o JsString(data.error),
                                      "error"), "idle")
       ELSE IF text # <<>>
       THEN sendCommandUnified(showTranscript(s1, <<"You: ">> \o text), text)
       ELSE showTranscript(s1, NoSpeechMsg)

\* voice.js:281-300: the transcription handler (unified)
transcribeThenUnified(st, data) ==
    LET s1 == showProcessing(st, FALSE)
        text == Trim(JsString(Or(data.text, Str(<<>>))))
    IN IF Truthy(data.error)
       THEN setCoreState(showResponse(s1, TranscriptionFailedMsg \o JsString(data.error),
                                      "error"), "idle")
       ELSE IF text # <<>>
       THEN sendCommandUnified(showTranscript(s1, <<"You: ">> \o text), text)
       ELSE setCoreState(showTranscript(s1, NoSpeechMsg), "idle")

\* A transcription handler that looks at the text before it looks at the error.
transcribeThenTextFirst(st, data) ==
    LET s1 == showProcessing(st, FALSE)
        text == Or(data.text, Str(<<>>))
    IN IF Truthy(text)
       THEN sendToAI(showTranscript(s1, <<"Whisper heard: ">> \o JsString(text)),
                     JsString(text))
       ELSE setCoreState(showResponse(s1, TranscriptionFailedMsg \o JsString(data.error),
                                      "error"), "idle")

\* voice.js:785-806: the transcription handler (Whisper variant)
transcribeThenWhisper(st, data) ==
    LET s1 == showProcessing(st, FALSE)
        text == Or(data.text, Str(<<>>))
    IN IF Truthy(data.error)
       THEN setCoreState(showResponse(s1, TranscriptionFailedMsg \o JsString(data.error),
                                      "error"), "idle")
       ELSE IF Truthy(text)
       THEN sendToAI(showTranscript(s1, <<"Whisper heard: ">> \o JsString(text)),
                     JsString(text))
       ELSE setCoreState(showResponse(showTranscript(s1, NoSpeechTips), NoSpeechTips,
                                      "info"), "idle")

\* voice.js:301-306 / 808-813: the catch of processRecording
transcribeCatch(st) ==
    setCoreState(showResponse(showProcessing(st, FALSE),
                              IF variant = "unified" THEN TranscribeErrorMsg
                              ELSE WhisperConnectMsg, "error"), "idle")

Recording == <<isRecording, mediaRecorder, audioStream, audioChunks, recorders, streams,
               gumPending>>

\* /voice/transcribe answered with a JSON body
TranscribeResponse(i, data) ==
    /\ variant \in Voice
    /\ i \in 1..Len(net) /\ net[i].kind = "transcribe"
    /\ UNCHANGED <<variant, Recording, whisperAvailable, budget, speechSupported, capture>>
    /\ Commit(IF variant = "unified" THEN transcribeThenUnified(Settle(Dom, i), data)
              ELSE transcribeThenWhisper(Settle(Dom, i), data))
    /\ lastFail' = IF Truthy(data.error) THEN "transcribeError" ELSE "none"

\* /voice/transcribe failed: the request was rejected or the body is no JSON
TranscribeRejected(i) ==
    /\ variant \in Voice
    /\ i \in 1..Len(net) /\ net[i].kind = "transcribe"
    /\ UNCHANGED <<variant, Recording, whisperAvailable, budget, speechSupported, capture>>
    /\ Commit(transcribeCatch(Settle(Dom, i)))
    /\ lastFail' = "transcribe"

\* /ai-command answered with a JSON body (voice.js)
CommandResponse(i, data) ==
    /\ variant \in Voice
    /\ i \in 1..Len(net) /\ net[i].kind = "command"
    /\ UNCHANGED <<variant, Recording, whisperAvailable, budget, speechSupported, capture>>
    /\ LET st == IF variant = "unified" THEN commandThenUnified(Settle(Dom, i), data)
                 ELSE commandThenWhisper(Settle(Dom, i), data)
       IN /\ Commit(st)
          /\ lastFail' = IF commandThrows(data) THEN "command" ELSE "none"

\* Bodies an answer with an error status carries: an error report, which has
\* none of the fields a handler reads but error, or the body of a good answer.
TranscribeErrorBodies ==
    {d \in TranscribeBodies : d.text \in {Undefined, Str(<<"x">>)}}

CommandErrorBodies ==
    {Body(Undefined, Undefined, Undefined, Undefined),
     Body(Str(<<"x">>), Undefined, Undefined, True)}

\* /voice/transcribe answered with a status outside 200-299 and a JSON body:
\* voice.js:279 / 783 reads the body without looking at the status
TranscribeErrorStatus(i, data) ==
    /\ variant \in Voice
    /\ i \in 1..Len(net) /\ net[i].kind = "transcribe"
    /\ UNCHANGED <<Browser, Recording, whisperAvailable, budget>>
    /\ Commit(IF variant = "unified" THEN transcribeThenUnified(Settle(Dom, i), data)
              ELSE transcribeThenWhisper(Settle(Dom, i), data))
    /\ lastFail' = IF Truthy(data.error) THEN "transcribeError" ELSE "none"

\* /ai-command answered with a status outside 200-299 and a JSON body:
\* voice.js:331 / 830 reads the body without looking at the status
CommandErrorStatus(i, data) ==
    /\ variant \in Voice
    /\ i \in 1..Len(net) /\ net[i].kind = "command"
    /\ UNCHANGED <<Browser, Recording, whisperAvailable, budget>>
    /\ Commit(IF variant = "unified" THEN commandThenUnified(Settle(Dom, i), data)
              ELSE commandThenWhisper(Settle(Dom, i), data))
    /\ lastFail' = IF commandThrows(data) THEN "command" ELSE "none"

\* /ai-command failed: the request was rejected or the body is no JSON (voice.js)
CommandRejected(i) ==
    /\ variant \in Voice
    /\ i \in 1..Len(net) /\ net[i].kind = "command"
    /\ UNCHANGED <<variant, Recording, whisperAvailable, budget, speechSupported, capture>>
    /\ Commit(IF variant = "unified"
              THEN commandCatchUnified(Settle(Dom, i), <<"Failed to fetch">>)
              ELSE commandCatchWhisper(Settle(Dom, i)))
    /\ lastFail' = "command"

\* /ai-command answered with the JSON body null: reading data.reply throws at
\* voice.js:336 / 835 and the catch of the chain runs
CommandNull(i) ==
    /\ variant \in Voice
    /\ i \in 1..Len(net) /\ net[i].kind = "command"
    /\ UNCHANGED <<Browser, Recording, whisperAvailable, budget>>
    /\ Commit(IF variant = "unified"
              THEN commandCatchUnified(Settle(Dom, i),
                                       <<"Cannot read properties of null">>)
              ELSE commandCatchWhisper(Settle(Dom, i)))
    /\ lastFail' = "command"

\* Texts the user types into #commandInput.
TypedTexts == {<<>>, <<"SP">>, <<"x">>}

\* voice.js:312 / 992-1001: the user types text and submits it (sendCommand())
SendTyped(typed) ==
    /\ variant \in Voice
    /\ Spend(2)
    /\ LET s0 == [Dom EXCEPT !.input = typed]
       IN IF variant = "unified" THEN Commit(sendCommandUnified(s0, <<>>))
          ELSE IF Trim(typed) = <<>> THEN Commit(s0)
          ELSE Commit(sendToAI(showTranscript([s0 EXCEPT !.input = <<>>],
                                              <<"Typed: ">> \o Trim(typed)), Trim(typed)))
    /\ lastFail' = "none"
    /\ UNCHANGED <<variant, Recording, whisperAvailable, speechSupported, capture>>

\* voice.js:480-487 / 1003-1006: a quick-command button (text is its command)
sendQuickCommand(text) ==
    /\ variant \in Voice
    /\ Spend(2)
    /\ LET s0 == showTranscript(Dom, <<"Quick: ">> \o text)
       IN IF variant = "unified" THEN Commit(sendCommandUnified(s0, text))
          ELSE Commit(sendToAI(s0, text))
    /\ lastFail' = "none"
    /\ UNCHANGED <<variant, Recording, whisperAvailable, speechSupported, capture>>


-----------------------------------------------------------------------------
\* voice.js: speech callbacks (386-387 / 882-889)

\* An onend handler that does not touch the phase.
UtteranceEndSilent ==
    /\ variant \in Voice
    /\ synth # <<>>
    /\ Commit([Dom EXCEPT !.synth = Tail(@)])
    /\ lastFail' = "none"
    /\ UNCHANGED <<Browser, Recording, whisperAvailable, budget>>

\* utterance.onend of the utterance at the head of the queue
UtteranceEnd ==
    /\ variant \in Voice
    /\ synth # <<>>
    /\ Commit(setCoreState([Dom EXCEPT !.synth = Tail(@)], "idle"))
    /\ lastFail' = "none"
    /\ UNCHANGED <<Browser, Recording, whisperAvailable, budget>>

\* utterance.onerror of the utterance at the head of the queue
UtteranceError ==
    /\ variant \in Voice
    /\ synth # <<>>
    /\ Commit(setCoreState([Dom EXCEPT !.synth = Tail(@)], "idle"))
    /\ lastFail' = "speech"
    /\ UNCHANGED <<Browser, Recording, whisperAvailable, budget>>

\* The end or error event of an utterance that cancel() removed
CancelledEvent ==
    /\ variant \in Voice
    /\ cancelled > 0
    /\ Commit(setCoreState([Dom EXCEPT !.cancelled = @ - 1], "idle"))
    /\ lastFail' = "none"
    /\ UNCHANGED <<Browser, Recording, whisperAvailable, budget>>

HelloMsg == <<"Hello! I am ARES. Voice is working!">>

\* voice.js:526 / 1075-1077
testVoiceOutput ==
    /\ variant \in Voice
    /\ Spend(1)
    /\ Commit(speak(Dom, Str(HelloMsg)))
    /\ lastFail' = "none"
    /\ UNCHANGED <<Browser, Recording, whisperAvailable>>

-----------------------------------------------------------------------------
\* voice.js:48-49, 65-132: reminder polling (unified variant only)

Reminders ==
    {[message |-> <<"m1">>, reminder_type |-> "alarm"],
     [message |-> <<"m2">>, reminder_type |-> "reminder"]}

RECURSIVE SeqsUpTo(_, _)
SeqsUpTo(S, n) ==
    IF n = 0 THEN {<<>>}
    ELSE LET shorter == SeqsUpTo(S, n - 1)
         IN shorter \cup {Append(q, x) : q \in shorter, x \in S}

Permissions == {"default", "granted", "denied"}

\* The triggered lists one poll can return.
TriggeredLists == SeqsUpTo(Reminders, MaxReminders)

\* voice.js:81-82
ReminderIcon(r) ==
    IF r.reminder_type = "alarm" THEN "ALARM"
    ELSE IF r.reminder_type = "timer" THEN "TIMER" ELSE "BELL"

\* showReminderNotification that plays the tone for alarms only.
showReminderNotificationAlarmOnly(st, r, permission) ==
    LET s1 == showResponse(st, <<ReminderIcon(r), "SP">> \o r.message, "success")
        s2 == speak(s1, Str(r.message))
        s3 == IF r.reminder_type = "alarm" THEN [s2 EXCEPT !.tones = @ + 1] ELSE s2
    IN IF permission = "granted"
       THEN [s3 EXCEPT !.notifications = Append(@, r.message)] ELSE s3

\* voice.js:80-104
showReminderNotification(st, r, permission) ==
    LET s1 == showResponse(st, <<ReminderIcon(r), "SP">> \o r.message, "success")
        s2 == speak(s1, Str(r.message))
        s3 == IF r.reminder_type \in {"alarm", "timer"}
              THEN [s2 EXCEPT !.tones = @ + 1] ELSE s2
    IN IF permission = "granted"
       THEN [s3 EXCEPT !.notifications = Append(@, r.message)] ELSE s3

\* voice.js:70-72: data.triggered.forEach(showReminderNotification)
RECURSIVE forEachReminder(_, _, _)
forEachReminder(st, list, permission) ==
    IF list = <<>> THEN st
    ELSE forEachReminder(showReminderNotification(st, Head(list), permission),
                         Tail(list), permission)

\* voice.js:49, 65-66: the 2 s timer fires and checkReminders issues a poll
checkReminders ==
    /\ variant = "unified"
    /\ Spend(2)
    /\ Commit(fetch(Dom, "reminders", <<>>))
    /\ lastFail' = "none"
    /\ UNCHANGED <<Browser, Recording, whisperAvailable>>

\* voice.js:67-74: /reminders/triggered answered  {triggered: list};
\* permission is Notification.permission as the handler reads it (line 98)
RemindersResponse(i, list, permission) ==
    /\ variant = "unified"
    /\ i \in 1..Len(net) /\ net[i].kind = "reminders"
    /\ Commit(forEachReminder(Settle(Dom, i), list, permission))
    /\ lastFail' = "none"
    /\ UNCHANGED <<Browser, Recording, whisperAvailable, budget>>

\* A catch of checkReminders that reports the failure like the other handlers.
RemindersRejectedLoud(i) ==
    /\ variant = "unified"
    /\ i \in 1..Len(net) /\ net[i].kind = "reminders"
    /\ Commit(setCoreState(showResponse(Settle(Dom, i), <<"Reminder check failed.">>,
                                        "error"), "idle"))
    /\ lastFail' = "poll"
    /\ UNCHANGED <<Browser, isRecording, mediaRecorder, audioStream,
                   audioChunks, recorders, streams, gumPending, whisperAvailable, budget>>

\* voice.js:75-77: the poll failed; the catch does nothing
RemindersRejected(i) ==
    /\ variant = "unified"
    /\ i \in 1..Len(net) /\ net[i].kind = "reminders"
    /\ Commit(Settle(Dom, i))
    /\ lastFail' = "poll"
    /\ UNCHANGED <<Browser, Recording, whisperAvailable, budget>>

-----------------------------------------------------------------------------
\* voice.js: status check at load (137-162 / 605-628) and health (1008-1030)

WelcomeMsg == <<"Welcome!">>
ServerDownMsg == <<"Server not running?">>
WhisperNotLoadedMsg == <<"Whisper not loaded yet.">>
HealthMsg == <<"System Health">>
HealthFailedMsg == <<"Health check failed.">>
OnlineMsg == <<"System is online and operational.">>

\* /status or /voice/status answered; available: the whisper_available flag
StatusResponse(i, available) ==
    /\ variant \in Voice
    /\ i \in 1..Len(net) /\ net[i].kind = "status"
    /\ Spend(1)
    /\ whisperAvailable' = available
    /\ Commit(IF variant = "unified" \/ available
              THEN showResponse(Settle(Dom, i), WelcomeMsg, "success")
              ELSE showResponse(Settle(Dom, i), WhisperNotLoadedMsg, "info"))
    /\ lastFail' = "none"
    /\ UNCHANGED <<Browser, Recording>>

\* /status or /voice/status failed
StatusRejected(i) ==
    /\ variant \in Voice
    /\ i \in 1..Len(net) /\ net[i].kind = "status"
    /\ Spend(1)
    /\ whisperAvailable' = IF variant = "whisper" THEN FALSE ELSE whisperAvailable
    /\ Commit(IF variant = "unified"
              THEN showResponse(Settle(Dom, i), ServerDownMsg, "error")
              ELSE Settle(Dom, i))
    /\ lastFail' = "none"
    /\ UNCHANGED <<Browser, Recording>>

\* voice.js:485-487 (sendCommand("system status")) / 1008-1012
checkHealthVoice ==
    /\ variant \in Voice
    /\ Spend(2)
    /\ Commit(IF variant = "unified" THEN sendCommandUnified(Dom, <<"system status">>)
              ELSE fetch(showProcessing(setCoreState(Dom, "processing"), TRUE),
                         "health", <<>>))
    /\ lastFail' = "none"
    /\ UNCHANGED <<Browser, Recording, whisperAvailable>>

\* voice.js:1013-1024: /health answered (Whisper variant)
HealthResponseVoice(i) ==
    /\ variant = "whisper"
    /\ i \in 1..Len(net) /\ net[i].kind = "health"
    /\ Commit(setCoreState(speak(showResponse(showProcessing(Settle(Dom, i), FALSE),
                                              HealthMsg, "success"),
                                 Str(OnlineMsg)), "idle"))
    /\ lastFail' = "none"
    /\ UNCHANGED <<Browser, Recording, whisperAvailable, budget>>

\* voice.js:1025-1029: /health failed (Whisper variant)
HealthRejectedVoice(i) ==
    /\ variant = "whisper"
    /\ i \in 1..Len(net) /\ net[i].kind = "health"
    /\ Commit(setCoreState(showResponse(showProcessing(Settle(Dom, i), FALSE),
                                        HealthFailedMsg, "error"), "idle"))
    /\ lastFail' = "none"
    /\ UNCHANGED <<Browser, Recording, whisperAvailable, budget>>

-----------------------------------------------------------------------------
\* UI controllers: app.js 1-85 ("first"), app.js 87-280 ("second"),
\* the modern UI controller ("modern")

\* The cap of the modern UI's activity log.
LogCap == 10
QuickCap == 30
DirectCap == 20

\* setStatus of each controller: app.js:13-16, app.js:104-108, modern UI 155-174
StatusText(status) ==
    IF variant # "modern" THEN status
    ELSE CASE status = "THINKING" -> "PROCESSING"
           [] status \in {"IDLE", "LISTENING", "RESPONDING", "ERROR"} -> status
           [] OTHER -> "IDLE"

setStatus(st, status) == [st EXCEPT !.core = StatusText(status)]

\* modern UI 364-380: displayResponse
displayResponse(st, text, type) ==
    [st EXCEPT !.response = BreakLines(text), !.rclass = type]

\* The entries logActivity keeps: modern UI 210, app.js:547, quick_actions.js:172
ActivityCap ==
    CASE variant = "quickCommand" -> QuickCap
      [] variant = "quickDirect" -> DirectCap
      [] OTHER -> LogCap

\* logActivity without the loop that removes the last child.
logActivityUncapped(st, message, type) ==
    [st EXCEPT !.log = <<[message |-> message, type |-> type]>> \o @]

\* modern UI 190-213, app.js:527-551, quick_actions.js:155-176: logActivity,
\* newest first, at most ActivityCap entries
logActivity(st, message, type) ==
    LET all == <<[message |-> message, type |-> type]>> \o st.log
    IN [st EXCEPT !.log = IF Len(all) > ActivityCap THEN SubSeq(all, 1, ActivityCap)
                          ELSE all]

\* speechSynthesis.cancel() of the modern UI: an utterance already started may
\* still get its end event
synthCancelModern(st) ==
    [st EXCEPT !.synth = <<>>,
               !.cancelled = IF st.synth # <<>> /\ Head(st.synth).started
                             THEN @ + 1 ELSE @]

\* app.js:113-124 and modern UI 229-249: speak
speakUI(st, x) ==
    IF ~speechSupported \/ ~Truthy(x) THEN st
    ELSE IF variant = "modern" THEN synthSpeak(synthCancelModern(st), JsString(x))
    ELSE synthSpeak([st EXCEPT !.synth = <<>>], JsString(x))

ThinkingMsg == <<"ARES is thinking...", "NL">>
ProcessingMsg == <<"ARES processing...", "NL", "NL">>

\* sendCommand without the return for an empty command.
sendCommandUIUnchecked(st, override) ==
    fetch(setStatus(st, "THINKING"), "command", Trim(st.input))

\* sendCommand up to the request: app.js:21-32 with 43, app.js:201-212,
\* modern UI 252-270. override is the textOverride argument, <<>> for none.
sendCommandUI(st, override) ==
    LET cmd == IF override # <<>> /\ variant # "first" THEN override ELSE Trim(st.input)
    IN IF cmd = <<>> THEN st
       ELSE IF variant = "first"
       THEN [fetch(setStatus([st EXCEPT !.response = ThinkingMsg], "THINKING"),
                   "command", cmd) EXCEPT !.input = <<>>]
       ELSE IF variant = "second"
       THEN fetch([setStatus(st, "THINKING") EXCEPT !.response = ProcessingMsg \o cmd],
                  "command", cmd)
       ELSE fetch(logActivity(displayResponse(setStatus(st, "THINKING"),
                                              <<"> ">> \o cmd \o <<"NL", "NL", "Processing...">>,
                                              "user-input"),
                              <<"Command: ">> \o cmd, "primary"),
                  "command", cmd)

\* app.js:34-37: the response handler of the first controller
commandThenFirst(st, data) ==
    setStatus([st EXCEPT !.response =
                  IF Truthy(data.response) THEN JsString(data.response)
                  ELSE Stringify(data)], "IDLE")

\* app.js:214-225: the response handler of the second controller
commandThenSecond(st, data) ==
    LET s1 == IF Truthy(data.reply)
              THEN speakUI([st EXCEPT !.response = JsString(data.reply)], data.reply)
              ELSE IF Truthy(data.speech)
              THEN speakUI([st EXCEPT !.response = Stringify(data)], data.speech)
              ELSE [st EXCEPT !.response = Stringify(data)]
    IN setStatus([s1 EXCEPT !.input = <<>>], "IDLE")

\* modern UI 283-297: the display text and the speech text of a response
displayTextModern(data) ==
    IF Truthy(data.reply) THEN data.reply
    ELSE IF Truthy(data.response)
    THEN (IF data.response.k = "string" THEN data.response
          ELSE Str(StringifyValue(data.response, 0)))
    ELSE Str(Stringify(data))

speechTextModern(data) ==
    IF Truthy(data.reply) THEN data.reply
    ELSE IF Truthy(data.response) THEN Or(data.speech, Str(<<"Command processed">>))
    ELSE Str(<<"Response received">>)

\* modern UI 309-312: the finally block of sendCommand
commandFinallyModern(st) == setStatus([st EXCEPT !.input = <<>>], "IDLE")

\* modern UI 304-308: the catch block of sendCommand
commandCatchModern(st, message) ==
    [setStatus(logActivity(displayResponse(st, <<"Error: ">> \o message, "error"),
                           <<"Error: ">> \o message, "error"), "ERROR")
     EXCEPT !.timers = @ + 1]

\* modern UI 276-302, 309-312: the response handler of the modern UI
commandThenModern(st, data) ==
    commandFinallyModern(
        logActivity(speakUI(displayResponse(st, JsString(displayTextModern(data)),
                                            "assistant"),
                            speechTextModern(data)),
                    <<"Response received">>, "success"))

Idle == <<isRecording, mediaRecorder, audioStream, audioChunks, whisperAvailable,
          recorders, streams, gumPending>>

\* The user types text into #commandInput and submits it.
SendCommandUI(typed) ==
    /\ variant \in Controllers
    /\ Spend(IF Trim(typed) = <<>> THEN 1 ELSE 2)
    /\ Commit(sendCommandUI([Dom EXCEPT !.input = typed], <<>>))
    /\ lastFail' = "none"
    /\ UNCHANGED <<Browser, Idle>>

\* /ai-command answered with a JSON body (and, for the modern UI, status 2xx)
CommandResponseUI(i, data) ==
    /\ variant \in Controllers
    /\ i \in 1..Len(net) /\ net[i].kind = "command"
    /\ UNCHANGED <<Browser, Idle, budget>>
    /\ Commit(CASE variant = "first" -> commandThenFirst(Settle(Dom, i), data)
                [] variant = "second" -> commandThenSecond(Settle(Dom, i), data)
                [] OTHER -> commandThenModern(Settle(Dom, i), data))
    /\ lastFail' = "none"

\* /ai-command failed: app.js:38-41, app.js:226-229, modern UI 272-274, 304-312
CommandRejectedUI(i) ==
    /\ variant \in Controllers
    /\ i \in 1..Len(net) /\ net[i].kind = "command"
    /\ UNCHANGED <<Browser, Idle, budget>>
    /\ Commit(CASE variant = "first" ->
                     setStatus([Settle(Dom, i) EXCEPT
                                  !.response = <<"ERROR:", "NL", "TypeError: Failed to fetch">>],
                               "ERROR")
                [] variant = "second" ->
                     setStatus([Settle(Dom, i) EXCEPT
                                  !.response = <<"ARES error: ", "TypeError: Failed to fetch">>],
                               "ERROR")
                [] OTHER ->
                     commandFinallyModern(commandCatchModern(Settle(Dom, i),
                                                             <<"Failed to fetch">>)))
    /\ lastFail' = "command"

\* modern UI 272-274, 304-312: /ai-command answered with a status outside 200-299
CommandErrorStatusUI(i) ==
    /\ variant = "modern"
    /\ i \in 1..Len(net) /\ net[i].kind = "command"
    /\ UNCHANGED <<Browser, Idle, budget>>
    /\ Commit(commandFinallyModern(commandCatchModern(Settle(Dom, i), <<"HTTP 500">>)))
    /\ lastFail' = "command"

\* modern UI 308: the 3 s timer set by the catch block fires
ResetTimer ==
    /\ variant = "modern"
    /\ resetTimers > 0
    /\ Commit(setStatus([Dom EXCEPT !.timers = @ - 1], "IDLE"))
    /\ lastFail' = "none"
    /\ UNCHANGED <<Browser, Idle, budget>>

\* sendVoice: app.js:49-51 (placeholder), app.js:235-272, modern UI 316-360. found
\* tells whether the browser has SpeechRecognition. A recognition that was
\* started is in flight like a request, its arg the stage it has reached; the
\* second controller shows LISTENING at once, the modern UI in onstart.
sendVoice(found) ==
    /\ variant \in Controllers
    /\ IF variant = "first"
       THEN /\ Spend(1)
            /\ Commit([Dom EXCEPT !.response = <<"MIC", "SP", "Voice input not enabled yet.">>])
            /\ UNCHANGED capture
       ELSE /\ capture \in {"unknown", found} /\ capture' = found
            /\ IF found = "noSpeechRecognition"
               THEN /\ Spend(1)
                    /\ Commit(IF variant = "second"
                              THEN [Dom EXCEPT !.response =
                                       <<"Speech recognition not supported.">>]
                              ELSE logActivity(
                                     displayResponse(Dom,
                                        <<"CROSS", "SP",
                                          "Speech recognition not supported in this browser">>,
                                        "error"),
                                     <<"Speech recognition not supported">>, "error"))
               ELSE /\ Spend(3)
                    /\ Commit(IF variant = "second"
                              THEN fetch([setStatus(Dom, "LISTENING") EXCEPT !.response =
                                             <<"ARES listening", "ELLIPSIS", "SP", "MIC">>],
                                         "recognition", <<"started">>)
                              ELSE fetch(Dom, "recognition", <<"starting">>))
    /\ lastFail' = "none"
    /\ UNCHANGED <<variant, speechSupported, Idle>>

\* modern UI 332-339: recognition.onstart
RecognitionStart(i) ==
    /\ variant = "modern"
    /\ i \in 1..Len(net) /\ net[i] = [kind |-> "recognition", arg |-> <<"starting">>]
    /\ UNCHANGED <<Browser, Idle, budget>>
    /\ Commit(logActivity(
                displayResponse(
                   [setStatus([Dom EXCEPT !.net[i].arg = <<"started">>], "LISTENING")
                    EXCEPT !.viz = TRUE, !.button = TRUE],
                   <<"MIC", "SP", "Listening...">>, "info"),
                <<"Voice input started">>, "warning"))
    /\ lastFail' = "none"

\* app.js:252-257, modern UI 341-346: recognition.onresult with the transcript
\* heard, which goes to sendCommand as its textOverride
RecognitionResult(i, text) ==
    /\ variant \in {"second", "modern"}
    /\ i \in 1..Len(net) /\ net[i] = [kind |-> "recognition", arg |-> <<"started">>]
    /\ UNCHANGED <<Browser, Idle, budget>>
    /\ LET s0 == [Dom EXCEPT !.net[i].arg = <<"done">>]
       IN Commit(IF variant = "second"
                 THEN sendCommandUI(speakUI([s0 EXCEPT !.response = <<"Heard: ">> \o text],
                                            Str(<<"Command received.">>)),
                                    text)
                 ELSE sendCommandUI(
                        logActivity(displayResponse(s0, <<"MIC", "SP", "Heard: ", "QUOTE">>
                                                        \o text \o <<"QUOTE">>, "success"),
                                    <<"Voice: ">> \o text, "primary"),
                        text))
    /\ lastFail' = "none"

\* app.js:259-263, modern UI 348-351: recognition.onerror (no speech was matched,
\* or the microphone was refused before the recognition started)
RecognitionError(i) ==
    /\ variant \in {"second", "modern"}
    /\ i \in 1..Len(net) /\ net[i].kind = "recognition"
    /\ net[i].arg \in {<<"starting">>, <<"started">>}
    /\ UNCHANGED <<Browser, Idle, budget>>
    /\ LET s0 == [Dom EXCEPT !.net[i].arg = <<"done">>]
       IN Commit(IF variant = "second"
                 THEN setStatus(speakUI([s0 EXCEPT !.response =
                                            <<"Voice error: ", "no-speech">>],
                                        Str(<<"I did not understand.">>)), "IDLE")
                 ELSE logActivity(displayResponse(s0, <<"CROSS", "SP", "Voice error: ",
                                                        "no-speech">>, "error"),
                                  <<"Voice error: ", "no-speech">>, "error"))
    /\ lastFail' = "recognition"

\* app.js:265-267, modern UI 353-358: recognition.onend, the last event of a
\* recognition
RecognitionEnd(i) ==
    /\ variant \in {"second", "modern"}
    /\ i \in 1..Len(net) /\ net[i].kind = "recognition"
    /\ net[i].arg # <<"starting">>
    /\ UNCHANGED <<Browser, Idle, budget>>
    /\ Commit(IF variant = "second" THEN setStatus(Settle(Dom, i), "IDLE")
              ELSE setStatus([Settle(Dom, i) EXCEPT !.viz = FALSE, !.button = FALSE],
                             "IDLE"))
    /\ lastFail' = "none"

Buttons == {"health", "tasks", "schedules", "reload"}

\* The body of a button's answer as JSON.stringify(d, null, 2) prints it.
ButtonJson(kind) == <<"{", kind, "}">>

\* What the then branch of a button's request displays; isArray: whether the
\* body is an array (app.js:56-78, 133-192, modern UI 419-509)
ButtonShown(kind, isArray) ==
    IF variant = "first" THEN ButtonJson(kind)
    ELSE IF variant = "second"
    THEN CASE kind = "reload" -> <<"Schedules reloaded.">>
           [] kind = "tasks" /\ isArray ->
                 <<"Available tasks:", "NL", "NL", "BULLET", "SP", "t">>
           [] OTHER -> ButtonJson(kind)
    ELSE CASE kind = "health" -> <<"CHECK", "SP", "System Health Check">>
           [] kind = "reload" -> <<"CHECK", "SP", "Schedules reloaded successfully">>
           [] kind = "tasks" /\ isArray ->
                 <<"Available Tasks", "NL", "NL", "SP", "SP", "BULLET", "SP", "t">>
           [] kind = "schedules" /\ isArray ->
                 <<"Active Schedules", "NL", "NL", "SP", "SP", "BULLET", "SP", "s">>
           [] OTHER -> ButtonJson(kind)

\* The type displayResponse gets with it (modern UI 419-509)
ButtonClass(kind, isArray) ==
    IF kind \in {"health", "reload"} THEN "success"
    ELSE IF isArray THEN "info" ELSE "normal"

\* What the then branch says aloud (app.js:135-189, modern UI 427-508)
ButtonSpeech(kind, isArray) ==
    IF variant = "second"
    THEN CASE kind = "health" -> <<"System is online.">>
           [] kind = "tasks" -> <<"Tasks loaded.">>
           [] kind = "schedules" -> <<"Schedules loaded.">>
           [] OTHER -> <<"Schedules reloaded.">>
    ELSE CASE kind = "health" -> <<"System is online and operational">>
           [] kind = "tasks" -> <<IF isArray THEN "1" ELSE "undefined", " tasks loaded">>
           [] kind = "schedules" -> <<"Schedules loaded">>
           [] OTHER -> <<"Schedules reloaded">>

\* What the modern UI logs after it (428, 457, 490, 509)
ButtonLogged(kind, isArray) ==
    CASE kind = "health" -> <<"Health check completed">>
      [] kind = "tasks" -> <<"Loaded ", IF isArray THEN "1" ELSE "undefined", " tasks">>
      [] kind = "schedules" ->
            <<"Loaded ", IF isArray THEN "1" ELSE "undefined", " schedules">>
      [] OTHER -> <<"Schedules reloaded">>

\* What the catch branch displays (app.js:140-193, modern UI 431-512)
ButtonFailedMsg(kind) ==
    LET reason == IF variant = "modern" THEN <<": ", "Failed to fetch">> ELSE <<>>
    IN CASE kind = "health" -> <<"Health check failed">> \o reason
         [] kind = "tasks" -> <<"Failed to load tasks">> \o reason
         [] kind = "schedules" -> <<"Failed to load schedules">> \o reason
         [] OTHER -> <<"Reload failed">> \o reason

\* What the catch branch of the modern UI logs (432, 461, 494, 513)
ButtonFailLogged(kind) ==
    CASE kind = "health" -> <<"Health check failed">>
      [] kind = "tasks" -> <<"Task loading failed">>
      [] kind = "schedules" -> <<"Schedule loading failed">>
      [] OTHER -> <<"Reload failed">>

\* checkHealth / loadTasks / loadSchedules / reloadSchedules up to the request:
\* app.js:56-78, app.js:129-196, modern UI 412-517
buttonUI(st, kind, arg) ==
    IF variant = "first" THEN fetch(st, kind, arg)
    ELSE fetch(setStatus(st, "THINKING"), kind, arg)

ButtonUI(kind) ==
    /\ variant \in Controllers
    /\ Spend(2)
    /\ Commit(IF variant = "modern"
              THEN buttonUI(logActivity(Dom, <<"Quick action: ", kind>>, "primary"),
                            kind, <<>>)
              ELSE buttonUI(Dom, kind, <<>>))
    /\ lastFail' = "none"
    /\ UNCHANGED <<Browser, Idle>>

\* modern UI 520-524: loadSystemMetrics goes on to loadSchedules when the
\* load-time loadTasks is over
afterButton(st, req) ==
    IF req.arg = <<"load">> /\ req.kind = "tasks" THEN buttonUI(st, "schedules", <<"load">>)
    ELSE st

\* The then branch of a button's request
buttonThen(st, kind, isArray) ==
    CASE variant = "first" -> [st EXCEPT !.response = ButtonShown(kind, isArray)]
      [] variant = "second" ->
            setStatus(speakUI([st EXCEPT !.response = ButtonShown(kind, isArray)],
                              Str(ButtonSpeech(kind, isArray))), "IDLE")
      [] OTHER ->
            setStatus(logActivity(speakUI(displayResponse(st, ButtonShown(kind, isArray),
                                                          ButtonClass(kind, isArray)),
                                          Str(ButtonSpeech(kind, isArray))),
                                  ButtonLogged(kind, isArray), "success"), "IDLE")

\* The catch branch of a button's request (the first controller has none)
buttonCatch(st, kind) ==
    CASE variant = "first" -> st
      [] variant = "second" ->
            setStatus([st EXCEPT !.response = ButtonFailedMsg(kind)], "ERROR")
      [] OTHER ->
            setStatus(logActivity(displayResponse(st, ButtonFailedMsg(kind), "error"),
                                  ButtonFailLogged(kind), "error"), "IDLE")

\* A button's request answered with a JSON body
ButtonResponse(i, isArray) ==
    /\ variant \in Controllers
    /\ i \in 1..Len(net) /\ net[i].kind \in Buttons
    /\ IF net[i].arg = <<"load">> THEN Spend(1) ELSE UNCHANGED budget
    /\ Commit(afterButton(buttonThen(Settle(Dom, i), net[i].kind, isArray), net[i]))
    /\ lastFail' = "none"
    /\ UNCHANGED <<Browser, Idle>>

\* A button's request failed
ButtonRejected(i) ==
    /\ variant \in Controllers
    /\ i \in 1..Len(net) /\ net[i].kind \in Buttons
    /\ IF net[i].arg = <<"load">> THEN Spend(1) ELSE UNCHANGED budget
    /\ Commit(afterButton(buttonCatch(Settle(Dom, i), net[i].kind), net[i]))
    /\ lastFail' = "button"
    /\ UNCHANGED <<Browser, Idle>>

\* utterance.onstart (modern UI 240-242)
UtteranceStartUI ==
    /\ variant = "modern"
    /\ synth # <<>> /\ ~Head(synth).started
    /\ Commit(setStatus([Dom EXCEPT !.synth[1].started = TRUE], "RESPONDING"))
    /\ lastFail' = "none"
    /\ UNCHANGED <<Browser, Idle, budget>>

\* The utterance at the head of the queue ends: no handler in app.js, onend
\* in the modern UI (244-246)
UtteranceEndUI ==
    /\ variant \in {"second", "modern"}
    /\ synth # <<>>
    /\ variant = "modern" => Head(synth).started
    /\ Commit(IF variant = "modern"
              THEN setStatus([Dom EXCEPT !.synth = Tail(@)], "IDLE")
              ELSE [Dom EXCEPT !.synth = Tail(@)])
    /\ lastFail' = "none"
    /\ UNCHANGED <<Browser, Idle, budget>>

\* The utterance at the head of the queue fails: no controller handles onerror
UtteranceErrorUI ==
    /\ variant \in {"second", "modern"}
    /\ synth # <<>>
    /\ Commit([Dom EXCEPT !.synth = Tail(@)])
    /\ lastFail' = "speech"
    /\ UNCHANGED <<Browser, Idle, budget>>

\* A started utterance that cancel() removed: the browser delivers end
\* (deliverEnd) or error, for which the modern UI has no handler
CancelledEventUI(deliverEnd) ==
    /\ variant = "modern"
    /\ cancelled > 0
    /\ Commit(IF deliverEnd THEN setStatus([Dom EXCEPT !.cancelled = @ - 1], "IDLE")
              ELSE [Dom EXCEPT !.cancelled = @ - 1])
    /\ lastFail' = "none"
    /\ UNCHANGED <<Browser, Idle, budget>>

-----------------------------------------------------------------------------
\* Quick-action scripts: app.js 282-610 ("quickCommand"), quick_actions.js
\* ("quickDirect")

\* app.js:300-338: two of the entries
QUICK_ACTIONS ==
    [time |-> [label |-> <<"Time">>, command |-> <<"what time is it">>],
     timer5 |-> [label |-> <<"5min Timer">>, command |-> <<"set 5 minute timer">>]]

\* quick_actions.js:16-55: the same two entries
DirectActions ==
    [time |-> [label |-> <<"Time">>, action |-> <<"time">>],
     timer5 |-> [label |-> <<"5min Timer">>, action |-> <<"5min timer">>]]

\* The data-action attributes of the page's buttons: the keys of the table and
\* one the table does not have.
ActionKeys == DOMAIN QUICK_ACTIONS \cup {"unknown"}

\* Bodies /command and /direct-action answer with.
QuickBodies ==
    [success : {True, Undefined}, response : {Undefined, Str(<<"r">>)},
     error : {Undefined, Str(<<"e">>)}]

\* app.js:505-522, quick_actions.js:141-150: displayResponse (no source given)
displayResponseQuick(st, message, type) ==
    [st EXCEPT !.response = message, !.rclass = type]

\* app.js:348-375: executeCommand up to the request
executeCommand(commandKey) ==
    /\ variant = "quickCommand"
    /\ commandKey \notin busyButtons
    /\ Spend(2)
    /\ IF commandKey \notin DOMAIN QUICK_ACTIONS THEN Commit(Dom)
       ELSE Commit(fetch([Dom EXCEPT !.busy = @ \cup {commandKey}], "/command",
                         QUICK_ACTIONS[commandKey].command))
    /\ lastFail' = "none"
    /\ UNCHANGED <<Browser, Idle>>

\* executeQuickAction without the loading state of lines 71-76.
executeQuickActionNoLoading(actionKey) ==
    /\ variant = "quickDirect"
    /\ actionKey \notin busyButtons
    /\ Spend(2)
    /\ IF actionKey \notin DOMAIN DirectActions THEN Commit(Dom)
       ELSE Commit(fetch(Dom, "/direct-action", DirectActions[actionKey].action))
    /\ lastFail' = "none"
    /\ UNCHANGED <<Browser, Idle>>

\* quick_actions.js:60-88: executeQuickAction up to the request; a disabled
\* button delivers no click
executeQuickAction(actionKey) ==
    /\ variant = "quickDirect"
    /\ actionKey \notin busyButtons
    /\ Spend(2)
    /\ IF actionKey \notin DOMAIN DirectActions THEN Commit(Dom)
       ELSE Commit(fetch([Dom EXCEPT !.busy = @ \cup {actionKey}], "/direct-action",
                         DirectActions[actionKey].action))
    /\ lastFail' = "none"
    /\ UNCHANGED <<Browser, Idle>>

\* The key whose request carries the text arg.
KeyOf(arg) ==
    CHOOSE k \in DOMAIN QUICK_ACTIONS :
       arg \in {QUICK_ACTIONS[k].command, DirectActions[k].action}

\* app.js:377-395, quick_actions.js:90-106: the rest of the try block
quickThen(st, key, data) ==
    LET label == QUICK_ACTIONS[key].label
        failure == IF variant = "quickCommand" THEN data.response ELSE data.error
        s1 == IF Truthy(data.success)
              THEN logActivity(displayResponseQuick(st, JsString(data.response), "success"),
                               <<"OK ">> \o label \o <<": ">> \o JsString(data.response),
                               "success")
              ELSE logActivity(displayResponseQuick(
                                  st, <<"Error: ">>
                                      \o JsString(Or(failure, Str(<<"Action failed">>))),
                                  "error"),
                               <<"X ">> \o label \o <<" failed">>, "error")
    IN [s1 EXCEPT !.busy = @ \ {key}]

\* app.js:397-401, quick_actions.js:108-112: the catch block
quickCatch(st, message) ==
    logActivity(displayResponseQuick(st, <<"Error: ">> \o message, "error"),
                <<"X Error: ">> \o message, "error")

\* /command or /direct-action answered with a JSON body
QuickResponse(i, data) ==
    /\ variant \in QuickScripts
    /\ i \in 1..Len(net) /\ net[i].kind \in {"/command", "/direct-action"}
    /\ Commit(quickThen(Settle(Dom, i), KeyOf(net[i].arg), data))
    /\ lastFail' = "none"
    /\ UNCHANGED <<Browser, Idle, budget>>

\* /command or /direct-action failed: the request was rejected or the body is
\* no JSON
QuickRejected(i) ==
    /\ variant \in QuickScripts
    /\ i \in 1..Len(net) /\ net[i].kind \in {"/command", "/direct-action"}
    /\ Commit(quickCatch(Settle(Dom, i), <<"Failed to fetch">>))
    /\ lastFail' = "button"
    /\ UNCHANGED <<Browser, Idle, budget>>

\* app.js:572-581, 595-599: the /health request of the load settles either way;
\* getHealthStatus only writes to the console
HealthSettledQuick(i) ==
    /\ variant = "quickCommand"
    /\ i \in 1..Len(net) /\ net[i].kind = "health"
    /\ Commit(Settle(Dom, i))
    /\ lastFail' = "none"
    /\ UNCHANGED <<Browser, Idle, budget>>

-----------------------------------------------------------------------------
\* The page right after DOMContentLoaded.

InitVoice ==
    /\ variant \in Voice
    /\ net = <<[kind |-> "status", arg |-> <<>>]>>
    /\ coreState = "IDLE"
    /\ activityLog = <<>>

InitCommon ==
    /\ isRecording = FALSE
    /\ mediaRecorder = 0
    /\ audioStream = 0
    /\ audioChunks = <<>>
    /\ whisperAvailable = FALSE
    /\ recorders = [i \in RecorderIds |-> [state |-> "none", made |-> 0]]
    /\ streams = [i \in RecorderIds |-> "none"]
    /\ gumPending = 0
    /\ responseText = <<>>
    /\ responseClass = "none"
    /\ transcriptText = <<>>
    /\ processingBox = FALSE
    /\ voiceButton = FALSE
    /\ visualizer = FALSE
    /\ commandInput = <<>>
    /\ synth = <<>>
    /\ cancelled = 0
    /\ notifications = <<>>
    /\ tones = 0
    /\ resetTimers = 0
    /\ busyButtons = {}
    /\ budget = MaxWork
    /\ speechSupported \in BOOLEAN
    /\ capture = "unknown"
    /\ lastFail = "none"

\* app.js runs no request at load; the modern UI (26-38, 520-524) has started
\* loadTasks and logged one entry.
InitUI ==
    \/ /\ variant \in {"first", "second"}
       /\ net = <<>>
       /\ coreState = "IDLE"
       /\ activityLog = <<>>
    \/ /\ variant = "modern"
       /\ net = <<[kind |-> "tasks", arg |-> <<"load">>]>>
       /\ coreState = "PROCESSING"
       /\ activityLog = <<[message |-> <<"ARES interface loaded successfully">>,
                           type |-> "info"]>>

\* app.js:588-603 has asked for /health; quick_actions.js:181-185 asks nothing
InitQuick ==
    /\ variant \in QuickScripts
    /\ net = IF variant = "quickCommand" THEN <<[kind |-> "health", arg |-> <<>>]>>
             ELSE <<>>
    /\ coreState = "IDLE"
    /\ activityLog = <<>>

Init ==
    /\ InitCommon
    /\ InitVoice \/ InitUI \/ InitQuick

NextVoice ==
    \/ toggleVoice
    \/ GumGranted
    \/ GumGrantedNoRecorder
    \/ GumDenied
    \/ \E r \in RecorderIds : ondataavailable(r)
    \/ \E r \in RecorderIds, hasData \in BOOLEAN : onfinaldata(r, hasData)
    \/ \E r \in RecorderIds : onstop(r)
    \/ \E i \in 1..Len(net), data \in TranscribeBodies : TranscribeResponse(i, data)
    \/ \E i \in 1..Len(net) : TranscribeRejected(i)
    \/ \E i \in 1..Len(net), data \in CommandBodies : CommandResponse(i, data)
    \/ \E i \in 1..Len(net) : CommandRejected(i)
    \/ \E i \in 1..Len(net) : CommandNull(i)
    \/ \E i \in 1..Len(net), data \in TranscribeErrorBodies :
          TranscribeErrorStatus(i, data)
    \/ \E i \in 1..Len(net), data \in CommandErrorBodies : CommandErrorStatus(i, data)
    \/ \E typed \in TypedTexts : SendTyped(typed)
    \/ sendQuickCommand(<<"q">>)
    \/ UtteranceEnd
    \/ UtteranceError
    \/ CancelledEvent
    \/ testVoiceOutput
    \/ checkReminders
    \/ \E i \in 1..Len(net), list \in TriggeredLists, p \in Permissions :
          RemindersResponse(i, list, p)
    \/ \E i \in 1..Len(net) : RemindersRejected(i)
    \/ \E i \in 1..Len(net), available \in BOOLEAN : StatusResponse(i, available)
    \/ \E i \in 1..Len(net) : StatusRejected(i)
    \/ checkHealthVoice
    \/ \E i \in 1..Len(net) : HealthResponseVoice(i)
    \/ \E i \in 1..Len(net) : HealthRejectedVoice(i)

NextUI ==
    \/ \E typed \in TypedTexts : SendCommandUI(typed)
    \/ \E i \in 1..Len(net), data \in CommandBodies : CommandResponseUI(i, data)
    \/ \E i \in 1..Len(net) : CommandRejectedUI(i)
    \/ \E i \in 1..Len(net) : CommandErrorStatusUI(i)
    \/ ResetTimer
    \/ \E kind \in Buttons : ButtonUI(kind)
    \/ \E i \in 1..Len(net), isArray \in BOOLEAN : ButtonResponse(i, isArray)
    \/ \E i \in 1..Len(net) : ButtonRejected(i)
    \/ UtteranceStartUI
    \/ UtteranceEndUI
    \/ UtteranceErrorUI
    \/ \E deliverEnd \in BOOLEAN : CancelledEventUI(deliverEnd)
    \/ \E found \in {"full", "noSpeechRecognition"} : sendVoice(found)
    \/ \E i \in 1..Len(net) : RecognitionStart(i)
    \/ \E i \in 1..Len(net) : RecognitionResult(i, <<"v">>)
    \/ \E i \in 1..Len(net) : RecognitionError(i)
    \/ \E i \in 1..Len(net) : RecognitionEnd(i)

NextQuick ==
    \/ \E commandKey \in ActionKeys : executeCommand(commandKey)
    \/ \E actionKey \in ActionKeys : executeQuickAction(actionKey)
    \/ \E i \in 1..Len(net), data \in QuickBodies : QuickResponse(i, data)
    \/ \E i \in 1..Len(net) : QuickRejected(i)
    \/ \E i \in 1..Len(net) : HealthSettledQuick(i)

Next == NextVoice \/ NextUI \/ NextQuick

Spec == Init /\ [][Next]_vars

\* The activity log alone: the scripts that keep one call logActivity again and
\* again. The n-th message is a text of n characters, so that every entry differs
\* from the others as the time stamps of the source make them differ.
Logged == IF activityLog = <<>> THEN 0 ELSE Len(Head(activityLog).message)

LogEntry ==
    /\ variant \in {"modern"} \cup QuickScripts
    /\ Logged < MaxLogged
    /\ Commit(logActivity(Dom, [i \in 1..(Logged + 1) |-> "x"], "info"))
    /\ UNCHANGED <<Browser, Idle, budget, lastFail>>

LogInit == Init /\ variant \in {"modern"} \cup QuickScripts

LogSpec == LogInit /\ [][LogEntry]_vars

\* showReminderNotification alone: it is called for one reminder after the
\* other, of every reminder_type and under every Notification.permission.
ReminderShapes ==
    [message : {<<"m1">>, <<"m2">>}, reminder_type : {"alarm", "timer", "reminder"}]

ReminderShown(r, permission) ==
    /\ variant = "unified"
    /\ Spend(1)
    /\ Commit(showReminderNotification(Dom, r, permission))
    /\ lastFail' = "none"
    /\ UNCHANGED <<Browser, Recording, whisperAvailable>>

ReminderInit == Init /\ variant = "unified"

ReminderSpec ==
    ReminderInit
    /\ [][\E r \in ReminderShapes, p \in Permissions : ReminderShown(r, p)]_vars

\* The voice page alone, under the assumptions that a command request settles
\* (the promise of fetch is fulfilled or rejected) and that an utterance handed to
\* speechSynthesis gets its end or its error event.
VoiceInit == Init /\ variant \in Voice

\* The failure of a command request is possible for as long as the request is
\* in flight, and every answer ends that: weak fairness of the failure excludes
\* exactly the behaviours in which a command request stays in flight forever.
FairSpec ==
    /\ VoiceInit /\ [][NextVoice]_vars
    /\ WF_vars(\E i \in 1..Len(net) : CommandRejected(i))
    /\ WF_vars(UtteranceEnd \/ UtteranceError \/ CancelledEvent)

-----------------------------------------------------------------------------
\* Properties

RecordingRecorders == {r \in RecorderIds : recorders[r].state = "recording"}
OpenStreams == {r \in RecorderIds : streams[r] = "live"}

\* C1: at most one recording session is active at a time: never more than one
\* recording MediaRecorder and never more than one open microphone stream,
\* also when toggleVoice is called again while getUserMedia is pending.
C1_OneRecordingSession ==
    /\ Cardinality(RecordingRecorders) <= 1
    /\ Cardinality(OpenStreams) <= 1

Utterance(text) == [text |-> text, started |-> FALSE]

\* Two speak calls in succession: a poll that returns two reminders calls
\* speak once for each (voice.js:70-72, 90).
TwoReminders == {list \in TriggeredLists : Len(list) = 2}

LastCallWins ==
    speechSupported =>
        \A i \in {j \in 1..Len(net) : net[j].kind = "reminders"} :
            \A list \in TwoReminders, p \in Permissions :
                RemindersResponse(i, list, p) => synth' = <<Utterance(list[2].message)>>

\* C4: at most one utterance is active or queued at any time, and after two
\* speak calls in succession only the text of the last call is being spoken.
C4_OneUtterance == [](Len(synth) <= 1) /\ [][LastCallWins]_vars

\* A speak call found an utterance in flight, cancelled it and queued its own.
C4_Witness == cancelled > 0 /\ Len(synth) = 1 /\ tones = 1 /\ Len(notifications) = 2

CommandRequests(q) == {i \in 1..Len(q) : q[i].kind = "command"}

\* What the handler of a transcription result does when it finds no speech.
NoSpeechOutcome ==
    /\ transcriptText' # <<>> /\ Head(transcriptText') = "No speech detected."
    /\ coreState' = "IDLE"
    /\ Cardinality(CommandRequests(net')) = Cardinality(CommandRequests(net))

\* C7: a transcription result with text = "" and no error field reports no
\* speech detected, sets the phase to idle and sends no command request.
C7_EmptyText ==
    [][\A i \in {j \in 1..Len(net) : net[j].kind = "transcribe"} :
          TranscribeResponse(i, [error |-> Undefined, text |-> Str(<<>>)])
              => NoSpeechOutcome]_vars

\* The no-speech report is on screen, the phase is idle, nothing is in flight.
C7_Witness ==
    /\ transcriptText # <<>> /\ Head(transcriptText) = "No speech detected."
    /\ coreState = "IDLE"
    /\ net = <<>>
    /\ \E r \in RecorderIds : recorders[r].state = "inactive"

\* C8: a transcription result whose text is only whitespace is treated like
\* empty text: no speech detected, phase idle, no command dispatched.
C8_WhitespaceText ==
    [][\A i \in {j \in 1..Len(net) : net[j].kind = "transcribe"} :
          TranscribeResponse(i, [error |-> Undefined, text |-> Str(<<"SP">>)])
              => NoSpeechOutcome]_vars

\* C9: for each reminder one poll returns, also when it returns several, a
\* notification for it is displayed and its message is spoken.
C9_EachReminderSpoken ==
    [][\A i \in 1..Len(net), list \in TriggeredLists, p \in Permissions :
          (RemindersResponse(i, list, p) /\ speechSupported)
              => \A k \in 1..Len(list) :
                    \E u \in 1..Len(synth') : synth'[u].text = list[k].message]_vars

\* A step of the reminder poll: the timer's request or its answer.
ReminderStep ==
    \/ checkReminders
    \/ \E i \in 1..Len(net), list \in TriggeredLists, p \in Permissions :
          RemindersResponse(i, list, p)
    \/ \E i \in 1..Len(net) : RemindersRejected(i)

\* C10: no step of a reminder poll changes the response text, the phase
\* indicator or the utterance in flight of the recording/command pipeline.
C10_PollDisjoint ==
    [][ReminderStep => UNCHANGED <<responseText, coreState, synth>>]_vars

\* Nothing is pending that could change the phase or the status: no request
\* in flight but the load-time status check, whose answer only writes the
\* response text (voice.js:137-162, 605-628), no getUserMedia pending, no
\* recorder between stop() and its stop event, no utterance queued or
\* cancelled, no timer set. A recorder that is still recording only delivers
\* chunks (voice.js:213-215).
Quiet ==
    /\ \A i \in 1..Len(net) : net[i].kind = "status"
    /\ gumPending = 0
    /\ \A r \in RecorderIds : recorders[r].state \notin {"flushing", "stopping"}
    /\ synth = <<>>
    /\ cancelled = 0
    /\ resetTimers = 0

\* The failures of the recording/command pipeline that lastFail records.
PipelineFailures == {"mic", "transcribe", "transcribeError", "command", "speech"}

\* C2: in the voice pipeline, after any failure (microphone denied,
\* transcription rejected or answered with an error field, command dispatch
\* rejected or unparsable, speech-synthesis error) the phase becomes idle and
\* is never left stuck in listening, processing or speaking: once the failure
\* is handled and nothing is pending any more, the phase is idle.
C2_FailureThenIdle ==
    (variant \in Voice /\ lastFail \in PipelineFailures /\ Quiet) => coreState = "IDLE"

\* C3: in every UI controller, when a failed command dispatch or a failed
\* health/tasks/schedules request puts the status into ERROR, the status
\* afterwards returns to IDLE without further user action: the status is not
\* ERROR once nothing is pending any more.
C3_ErrorNotTerminal ==
    (variant \in Controllers /\ Quiet) => coreState # "ERROR"

\* A step that handles the answer  data  of a command dispatch.
CommandAnswer(data) ==
    \E i \in 1..Len(net) : CommandResponse(i, data) \/ CommandResponseUI(i, data)

\* C5: for every command-dispatch response with a non-empty reply X, whatever
\* other fields it carries, the text displayed is X and the text passed to
\* speech synthesis is X.
C5_ReplyShownAndSpoken ==
    [][\A data \in CommandBodies :
          (CommandAnswer(data) /\ Truthy(data.reply) /\ speechSupported)
              => /\ responseText' = data.reply.v
                 /\ synth' = <<Utterance(data.reply.v)>>]_vars

\* C6: for every command-dispatch response whose response field is an object
\* and which has no reply, the text displayed is the pretty-printed JSON, the
\* text spoken is the speech field if present, and nothing is spoken if not.
C6_ObjectResponse ==
    [][\A data \in CommandBodies :
          (CommandAnswer(data) /\ data.reply = Undefined /\ data.response.k = "object"
             /\ speechSupported)
              => /\ responseText' \in {StringifyValue(data.response, 0), Stringify(data)}
                 /\ IF Truthy(data.speech) THEN synth' = <<Utterance(data.speech.v)>>
                    ELSE synth' = synth]_vars

\* What the user sees and hears of the voice page.
Visible == <<responseText, responseClass, transcriptText, coreState, processingBox,
             synth, cancelled, notifications, tones>>

\* C11: a failed reminder poll is swallowed silently: it changes no
\* user-visible state (response text, transcript, phase, speech), and it does
\* not stop later polls: the timer issues the next one whenever it fires.
C11_PollFailureSilent ==
    /\ [][\A i \in {j \in 1..Len(net) : net[j].kind = "reminders"} :
             RemindersRejected(i) => UNCHANGED Visible]_vars
    /\ []((variant = "unified" /\ budget >= 2) => ENABLED checkReminders)

\* A poll has just failed while an utterance is being spoken.
C11_Witness == lastFail = "poll" /\ coreState = "SPEAKING" /\ synth # <<>>

\* The edges of the shared lifecycle, as the phase indicator shows them.
LifecycleEdges ==
    {<<"IDLE", "LISTENING">>, <<"LISTENING", "THINKING">>, <<"THINKING", "SPEAKING">>,
     <<"SPEAKING", "IDLE">>, <<"LISTENING", "IDLE">>, <<"THINKING", "IDLE">>}

\* C12: every change of the phase in the voice pipeline follows the shared
\* state machine: idle to listening, listening to processing, processing to
\* speaking, speaking to idle, or a failure edge from listening or processing
\* back to idle; no other phase transition occurs.
C12_PhaseMachine ==
    [][(variant \in Voice /\ coreState' # coreState)
          => <<coreState, coreState'>> \in LifecycleEdges]_vars

\* C13: after stopRecording returns, isRecording is false, every microphone
\* stream that any startRecording call opened has all its tracks stopped, and
\* processRecording is invoked exactly once for the stopped session: its
\* recorder has left the recording state and owes exactly its one stop event.
C13_StopReleases ==
    [][(toggleVoice /\ isRecording)
          => /\ isRecording' = FALSE
             /\ OpenStreams' = {}
             /\ mediaRecorder # 0 /\ recorders'[mediaRecorder].state = "flushing"]_vars

\* C14: when startRecording fails because the microphone is refused or the
\* browser cannot capture audio, the step shows an error message, leaves
\* isRecording false, creates no recorder, does not show the listening phase and
\* issues no new getUserMedia request; toggleVoice stays available afterwards.
C14_StartFailsSafely ==
    /\ [][(variant \in Voice /\ lastFail' \in {"mic", "unsupported"})
            => /\ responseClass' = "error"
               /\ responseText' \in {MicErrorMsg, MicTypeErrorMsg, MicReferenceErrorMsg}
               /\ isRecording' = FALSE
               /\ recorders' = recorders /\ mediaRecorder' = mediaRecorder
               /\ coreState' # "LISTENING"
               /\ gumPending' <= gumPending]_vars
    /\ []((variant \in Voice /\ lastFail \in {"mic", "unsupported"}) => ENABLED toggleVoice)
NumReq(q, kind) == Cardinality({j \in 1..Len(q) : q[j].kind = kind})

\* C15: nothing is retried. The step that handles the outcome of a transcription
\* request, good or bad, leaves one transcription request fewer in flight and at
\* most one more command request (none when it failed); the step that handles the
\* outcome of a command request leaves one command request fewer and no new
\* transcription request. A transcription request appears only in the step in
\* which a recorder stops, one per step, a recorder stops once, and no step adds
\* more than one command request. (Each implication is written consequent first,
\* and a step that spends budget is an event of the user or a timer, never the
\* handling of an outcome.)
C15_NoRetry ==
    [][/\ \A i \in {j \in 1..Len(net) : net[j].kind = "transcribe"} :
            /\ \/ /\ NumReq(net', "transcribe") = NumReq(net, "transcribe") - 1
                  /\ NumReq(net', "command") <= NumReq(net, "command") + 1
               \/ budget' # budget
               \/ ~\/ \E data \in TranscribeBodies : TranscribeResponse(i, data)
                   \/ \E data \in TranscribeErrorBodies : TranscribeErrorStatus(i, data)
            /\ \/ /\ NumReq(net', "transcribe") = NumReq(net, "transcribe") - 1
                  /\ NumReq(net', "command") = NumReq(net, "command")
               \/ budget' # budget
               \/ ~TranscribeRejected(i)
       /\ \A i \in {j \in 1..Len(net) : net[j].kind = "command"} :
            \/ /\ NumReq(net', "command") = NumReq(net, "command") - 1
               /\ NumReq(net', "transcribe") = NumReq(net, "transcribe")
            \/ budget' # budget
            \/ ~(\/ CommandRejected(i) \/ CommandRejectedUI(i) \/ CommandErrorStatusUI(i)
                 \/ \E data \in CommandBodies :
                       CommandResponse(i, data) \/ CommandResponseUI(i, data)
                 \/ \E data \in CommandErrorBodies : CommandErrorStatus(i, data))
       /\ NumReq(net', "transcribe") > NumReq(net, "transcribe")
            => /\ NumReq(net', "transcribe") = NumReq(net, "transcribe") + 1
               /\ \E r \in RecorderIds : /\ recorders[r].state = "stopping"
                                         /\ recorders'[r].state = "inactive"
       /\ NumReq(net', "command") <= NumReq(net, "command") + 1
       /\ \A r \in RecorderIds :
            recorders[r].state = "inactive" => recorders'[r].state = "inactive"]_vars

\* A spoken command was transcribed and sent, its request failed, and neither a
\* transcription nor a command request is in flight.
C15_Witness ==
    /\ lastFail = "command"
    /\ \E r \in RecorderIds : recorders[r].state = "inactive"
    /\ NumReq(net, "command") = 0 /\ NumReq(net, "transcribe") = 0
\* C16: the step that handles an answer of the command or the transcription
\* endpoint whose status is outside 200-299 shows an error message, does not
\* present the body as a successful reply, and leaves the phase at idle.
C16_ErrorStatusIsFailure ==
    [][\A i \in {j \in 1..Len(net) : net[j].kind \in {"command", "transcribe"}} :
          (\/ CommandErrorStatusUI(i)
           \/ \E data \in CommandErrorBodies : CommandErrorStatus(i, data)
           \/ \E data \in TranscribeErrorBodies : TranscribeErrorStatus(i, data))
             => /\ responseClass' = "error"
                /\ coreState' = "IDLE"]_vars
\* Texts handed to speak: none, empty, blank, glyphs only, plain, decorated.
SpokenTexts ==
    {Undefined, Str(<<>>), Str(<<"SP">>), Str(<<"CHECK">>), Str(<<"BULLET", "SP">>),
     Str(<<"x">>), Str(<<"CHECK", "SP", "x">>)}

CleanOf(x) ==
    IF x.k # "string" THEN <<>>
    ELSE IF variant = "unified" THEN CleanUnified(x.v) ELSE CleanWhisper(x.v)

\* C17: in every state of the voice page, speak(text) with speech synthesis
\* present and a text that is not empty after cleaning leaves the phase at
\* speaking with exactly that utterance queued; with speech synthesis missing or
\* the text empty it queues no utterance and leaves the phase at idle. The end
\* and the error event of the utterance being spoken set the phase to idle.
C17_SpeakPhases ==
    /\ [](variant \in Voice =>
            \A x \in SpokenTexts :
               LET r == speak(Dom, x)
               IN IF speechSupported /\ CleanOf(x) # <<>>
                  THEN r.core = "SPEAKING" /\ r.synth = <<Utterance(CleanOf(x))>>
                  ELSE r.core = "IDLE" /\ r.synth \in {<<>>, synth})
    /\ [][(UtteranceEnd \/ UtteranceError) => coreState' = "IDLE"]_vars

\* speak("Hello! ...") of the voice test ran while the listening phase was shown.
C17_Witness ==
    /\ variant = "unified" /\ isRecording
    /\ coreState = "SPEAKING" /\ synth = <<Utterance(HelloMsg)>>
\* Bodies whose reply, response and speech are strings or absent.
TextBodies ==
    {d \in CommandBodies :
        \A v \in {d.reply, d.response, d.speech} : v = Undefined \/ v.k = "string"}

C20_LogBounded ==
    variant \in {"modern"} \cup QuickScripts =>
       /\ Len(activityLog) = IF Logged < ActivityCap THEN Logged ELSE ActivityCap
       /\ \A i \in 1..(Len(activityLog) - 1) :
             Len(activityLog[i].message) = Len(activityLog[i + 1].message) + 1

\* The log of app.js is full and has dropped its two oldest entries.
C20_Witness ==
    /\ variant = "quickCommand"
    /\ Len(activityLog) = QuickCap /\ Logged = QuickCap + 2

\* The chunks recorder r has delivered, in the order it captured them.
SessionChunks(r) == [n \in 1..recorders[r].made |-> [rec |-> r, n |-> n]]

\* C21: when the stop event of a stopped recorder is handled, the audio uploaded
\* for transcription is exactly the chunks that recorder's session captured, in
\* capture order: a session with chunks gets one request that carries them all
\* and no chunk of another session, also when a new recording was started first.
C21_UploadIsSession ==
    [][\A r \in {q \in RecorderIds : recorders[q].state = "stopping"} :
          (onstop(r) /\ recorders[r].made > 0)
             => /\ Len(net') = Len(net) + 1
                /\ net'[Len(net')] = [kind |-> "transcribe", arg |-> SessionChunks(r)]]_vars

\* C22: while a recording is active the phase shown is listening: no speech
\* callback, network completion or reminder poll moves it to another phase
\* between the grant that sets isRecording and the call of stopRecording.
\* (A step that leaves the budget alone is a callback: a speech event, a
\* completion of a request or of getUserMedia, a recorder event.)
C22_ListeningWhileRecording ==
    [][(variant \in Voice) =>
          /\ ((~isRecording /\ isRecording') => coreState' = "LISTENING")
          /\ ((isRecording /\ isRecording' /\ coreState = "LISTENING" /\ budget' = budget)
                => coreState' = "LISTENING")]_vars

\* C23: while a command request is in flight the status shows the thinking
\* state: a callback (a step that leaves the budget alone) that finds a command
\* request in flight and leaves one in flight does not set the status to IDLE.
C23_ThinkingWhileInFlight ==
    [][(/\ coreState \in {"THINKING", "PROCESSING"}
        /\ budget' = budget
        /\ NumReq(net, "command") > 0 /\ NumReq(net', "command") >= NumReq(net, "command"))
          => coreState' # "IDLE"]_vars

\* C24: in the voice pipeline, whenever an utterance that speak queued and that
\* was not cancelled is still in the synthesis queue, the phase shown is speaking.
C24_SpeakingWhileSpoken ==
    (variant \in Voice /\ synth # <<>>) => coreState = "SPEAKING"

\* C25: in the voice pipeline every command dispatch returns the phase to idle:
\* if requests settle and utterances end or fail, a state with a command request
\* in flight is followed by a state in which no command request is in flight and
\* the phase is idle, whatever the body of the answer.
C25_DispatchReturnsToIdle ==
    (variant \in Voice /\ NumReq(net, "command") > 0)
       ~> (coreState = "IDLE" /\ NumReq(net, "command") = 0)

\* The answer was the JSON null: the failure was reported, the apology spoken to
\* its end, and the phase is idle with nothing in flight.
C25_Witness ==
    /\ variant = "unified" /\ speechSupported
    /\ responseText = <<"Error: ", "Cannot read properties of null">>
    /\ coreState = "IDLE" /\ synth = <<>> /\ cancelled = 0
    /\ NumReq(net, "command") = 0

\* The requests in flight that the button of the given key started.
InFlight(key) ==
    {j \in 1..Len(net) : /\ net[j].kind \in {"/command", "/direct-action"}
                         /\ KeyOf(net[j].arg) = key}

\* C26: for as long as the request of a quick-action button is in flight the
\* button is disabled and marked active, and clicks never put two requests of
\* the same button in flight at once.
C26_ButtonBusyInFlight ==
    variant \in QuickScripts =>
       \A key \in DOMAIN QUICK_ACTIONS :
          /\ Cardinality(InFlight(key)) <= 1
          /\ InFlight(key) # {} => key \in busyButtons

\* The requests of both buttons are in flight at once and both buttons are busy.
C26_Witness ==
    /\ variant = "quickDirect"
    /\ \A key \in DOMAIN QUICK_ACTIONS : InFlight(key) # {} /\ key \in busyButtons

\* C27: once the request of a quick-action button is over, whether the server
\* answered success or failure, the request was rejected or the body could not
\* be parsed, the button is enabled again and no longer marked active.
C27_ButtonReenabled ==
    [][\A i \in {j \in 1..Len(net) : net[j].kind \in {"/command", "/direct-action"}} :
          (QuickRejected(i) \/ \E data \in QuickBodies : QuickResponse(i, data))
             => KeyOf(net[i].arg) \notin busyButtons']_vars

\* C28: processRecording with an empty chunk buffer sends no transcription
\* request and no command, reports that no audio was recorded, and sets the
\* phase to idle.
C28_EmptyBuffer ==
    [][\A r \in {q \in RecorderIds : recorders[q].state = "stopping"} :
          (audioChunks = <<>> /\ onstop(r))
             => /\ net' = net
                /\ transcriptText' # <<>> /\ Head(transcriptText') = Head(NoAudioMsg)
                /\ coreState' = "IDLE"]_vars

\* A recorder stopped without a chunk: nothing was sent, the report is shown.
C28_Witness ==
    /\ variant \in Voice
    /\ \E r \in RecorderIds : recorders[r].state = "inactive" /\ recorders[r].made = 0
    /\ transcriptText # <<>> /\ Head(transcriptText) = Head(NoAudioMsg)
    /\ coreState = "IDLE"
    /\ NumReq(net, "transcribe") = 0 /\ NumReq(net, "command") = 0

\* C29: a transcription result with a non-empty error field shows the
\* transcription-failed message with the error, sets the phase to idle and
\* dispatches no command, whatever its text field holds. (The step that handles
\* such a result is the one that sets lastFail to "transcribeError".)
C29_ErrorFieldWins ==
    [][\A i \in {j \in 1..Len(net) : net[j].kind = "transcribe"} :
          \A data \in {d \in TranscribeBodies : Truthy(d.error)} :
             (lastFail' = "transcribeError" /\ TranscribeResponse(i, data))
                => /\ responseText' = TranscriptionFailedMsg \o data.error.v
                   /\ responseClass' = "error"
                   /\ coreState' = "IDLE"
                   /\ NumReq(net', "command") = NumReq(net, "command")]_vars

\* A transcription answered with an error field: the failure is on screen, the
\* phase is idle and no command is in flight.
C29_Witness ==
    /\ variant = "whisper" /\ lastFail = "transcribeError"
    /\ responseText = TranscriptionFailedMsg \o <<"e">> /\ responseClass = "error"
    /\ coreState = "IDLE" /\ NumReq(net, "command") = 0

\* Typed texts that are empty after trimming.
BlankTexts == {t \in TypedTexts : Trim(t) = <<>>}

\* C30: in every variant, submitting a typed command that is empty or blank
\* sends no request and leaves the status or phase, the response display and
\* the content of the input field as they are.
C30_BlankIsNoOp ==
    [][\A typed \in BlankTexts :
          (SendTyped(typed) \/ SendCommandUI(typed))
             => /\ net' = net
                /\ coreState' = coreState
                /\ responseText' = responseText /\ responseClass' = responseClass
                /\ transcriptText' = transcriptText /\ processingBox' = processingBox
                /\ activityLog' = activityLog
                /\ commandInput' = typed]_vars

\* A blank was submitted first: it is still in the input field, nothing is in
\* flight and the status is the one of the page load.
C30_Witness ==
    /\ variant = "second" /\ budget = MaxWork - 2
    /\ commandInput = <<"SP">> /\ net = <<>> /\ coreState = "IDLE"

-----------------------------------------------------------------------------
\* The commands that are read from the input field.
TypedCommands == {Trim(t) : t \in TypedTexts} \ {<<>>}

\* C31: a command given to sendCommand as its text override never changes the
\* typed-command input field; the field's content changes only when the user
\* types and submits, or when a command that was read from the field is
\* answered. So every step that changes the field is a submit from the field or
\* settles an /ai-command request whose text is a typed one.
C31_OverrideKeepsInput ==
    [][commandInput' # commandInput
          => \/ budget' < budget /\ net' # net /\ Len(net') > 0
                /\ net'[Len(net')].kind = "command"
                /\ net'[Len(net')].arg \in TypedCommands
             \/ budget' < budget /\ net' = net /\ Trim(commandInput') = <<>>
             \/ \E i \in 1..Len(net) :
                   /\ net[i].kind = "command" /\ net[i].arg \in TypedCommands
                   /\ net' = Settle(Dom, i).net]_vars


-----------------------------------------------------------------------------
\* C32: in the Whisper variant nothing of a recording exists while
\* whisperAvailable is false (before /voice/status has answered, after it
\* answered no, after it failed): no microphone request is pending, no recorder
\* or stream was made, isRecording is false. A toggleVoice in that situation
\* requests no microphone, creates nothing, leaves isRecording false and the
\* phase as it was, and shows the "Whisper not available" error.
C32_WhisperGate ==
    /\ [](variant = "whisper" /\ ~whisperAvailable
             => /\ ~isRecording /\ gumPending = 0 /\ mediaRecorder = 0
                /\ \A r \in RecorderIds : recorders[r].state = "none"
                                          /\ streams[r] = "none")
    /\ [][(variant = "whisper" /\ ~whisperAvailable /\ toggleVoice)
             => /\ gumPending' = 0 /\ ~isRecording'
                /\ UNCHANGED <<recorders, streams, mediaRecorder, audioStream,
                               capture, coreState>>
                /\ responseText' = WhisperMissingMsg /\ responseClass' = "error"]_vars

\* The gate has refused a start after /voice/status was answered or failed.
C32_Witness ==
    /\ variant = "whisper" /\ ~whisperAvailable /\ NumReq(net, "status") = 0
    /\ responseText = WhisperMissingMsg /\ responseClass = "error"

-----------------------------------------------------------------------------
\* C33: showing a triggered reminder plays the alarm tone exactly when its
\* reminder_type is alarm or timer, creates a browser notification exactly when
\* the notification permission is granted, and for every reminder_type puts the
\* message on the screen and calls speak with it (which, where speech synthesis
\* exists, queues the message as the only utterance and shows SPEAKING).
C33_ReminderEffects ==
    [][\A r \in ReminderShapes, p \in Permissions :
          ReminderShown(r, p)
             => /\ tones' = IF r.reminder_type \in {"alarm", "timer"}
                            THEN tones + 1 ELSE tones
                /\ notifications' = IF p = "granted"
                                    THEN Append(notifications, r.message)
                                    ELSE notifications
                /\ Tail(Tail(responseText')) = r.message
                /\ responseClass' = "success"
                /\ IF speechSupported
                   THEN synth' = <<[text |-> r.message, started |-> FALSE]>>
                        /\ coreState' = "SPEAKING"
                   ELSE synth' = synth /\ coreState' = "IDLE"]_vars

\* A timer reminder and then a plain reminder were shown, the first with the
\* permission granted and the second without: one tone, one notification, the
\* plain reminder on screen and spoken.
C33_Witness ==
    /\ variant = "unified" /\ speechSupported
    /\ tones = 1 /\ notifications = <<<<"m1">>>>
    /\ responseText = <<"BELL", "SP", "m2">>
    /\ synth = <<[text |-> <<"m2">>, started |-> FALSE]>>
    /\ budget = MaxWork - 2

-----------------------------------------------------------------------------
\* C34: in the modern UI the step that handles a failed command (it is the one
\* that sets the 3 s timer) leaves the status ERROR; while that timer is pending
\* no callback takes the status away from ERROR; and the step in which the timer
\* fires leaves the status IDLE.
C34_ErrorUntilTimer ==
    [][variant = "modern"
          => /\ resetTimers' > resetTimers => coreState' = "ERROR"
             /\ (resetTimers' = resetTimers /\ resetTimers > 0 /\ budget' = budget
                   /\ coreState = "ERROR") => coreState' = "ERROR"
             /\ resetTimers' < resetTimers => coreState' = "IDLE"]_vars
====================================================================================
